---- MODULE Spec2Model ----
(***************************************************************************)
(* A model of the Swiss pairing service: the persisted tables of one       *)
(* tournament (registrations, pairings, pairing_gaps and the tournament    *)
(* row), the Tournament model assembled from them, the pairing builder,    *)
(* the standings calculator and the request handlers that change the       *)
(* tables.  Rounds and boards are numbered from 0 as in the code; TLA+     *)
(* sequences are indexed from 1, so round r of a history is history[r+1].  *)
(***************************************************************************)
EXTENDS Integers, Sequences, FiniteSets, TLC

VARIABLES
    registrations,  \* table registrations: row i has id i
    pairings,       \* table pairings, in insertion order
    pairing_gaps,   \* table pairing_gaps, in insertion order
    current_round,  \* tournaments.current_round
    num_rounds,     \* tournaments.num_rounds
    end_date,       \* tournaments.end_date ("NULL" or "set")
    req,            \* pair requests in flight: what each has computed so far
    status_updates  \* number of status updates applied so far

vars == <<registrations, pairings, pairing_gaps, current_round, num_rounds, end_date, req,
          status_updates>>

(***************************************************************************)
(* Bounds of the model and the inputs the requests draw from.              *)
(***************************************************************************)
MaxPlayers == 3
NumRounds == 3
MaxStatusUpdates == 1
MaxRoster == 5
ColorPlayers == 6
ColorRounds == 4
RosterPlayers == 5
RosterRounds == 4

StatusUpdateInputs == {"active", "Inactive", "away"}
ResultInputs == {"1-0", "1/2-1/2", "0-1", "0-0", "*"}
AbsentInputs == {<<>>, <<"win">>, <<"draw", "forfeit">>}
FirstColorInputs == {"NULL", "black"}

NULL == "NULL"

(***************************************************************************)
(* Small helpers on sets and sequences.                                    *)
(***************************************************************************)
Range(s) == {s[i] : i \in DOMAIN s}

Max2(a, b) == IF a >= b THEN a ELSE b
Min2(a, b) == IF a <= b THEN a ELSE b
AbsDiff(a, b) == IF a >= b THEN a - b ELSE b - a

RECURSIVE SumSeq(_)
SumSeq(s) == IF s = <<>> THEN 0 ELSE Head(s) + SumSeq(Tail(s))

RECURSIVE SumOver(_, _)
SumOver(S, f) ==
    IF S = {} THEN 0
    ELSE LET x == CHOOSE y \in S : TRUE IN f[x] + SumOver(S \ {x}, f)

RECURSIVE Perms(_)
Perms(S) ==
    IF S = {} THEN {<<>>}
    ELSE UNION {{<<x>> \o p : p \in Perms(S \ {x})} : x \in S}

\* TLC evaluates a function expression anew at every application; these two
\* build the same function or sequence with its values computed once.
RECURSIVE EagerSeq(_, _)
EagerSeq(f, n) == IF n = 0 THEN <<>> ELSE Append(EagerSeq(f, n - 1), f[n])

RECURSIVE EagerFcn(_, _)
EagerFcn(f, S) ==
    IF S = {} THEN << >>
    ELSE LET x == CHOOSE y \in S : TRUE IN (x :> f[x]) @@ EagerFcn(f, S \ {x})

\* Rust's stable sort_by on a sequence whose elements have the integer key k[i]:
\* element i goes behind every element with a smaller key and every earlier
\* element with the same key.
StableSortByKey(s, k) ==
    LET pos == EagerSeq([i \in DOMAIN s |->
                   Cardinality({j \in DOMAIN s : k[j] < k[i] \/ (k[j] = k[i] /\ j < i)}) + 1],
                   Len(s))
    IN  EagerSeq([n \in DOMAIN s |-> s[CHOOSE i \in DOMAIN s : pos[i] = n]], Len(s))

\* Option<usize> of Iterator::position: the 0-based index of x in s.
Position(s, x) == (CHOOSE i \in DOMAIN s : s[i] = x) - 1

(***************************************************************************)
(* models/tournament.rs: the enumerations and their conversions.           *)
(***************************************************************************)
GameResultFromStr(s) ==
    CASE s \in {"1-0", "1 - 0", " 1-0 "} -> "WhiteWins"
      [] s \in {"1/2-1/2", "1/2 - 1/2", "=-=", "= - ="} -> "Draw"
      [] s \in {"0-1", "0 - 1"} -> "BlackWins"
      [] s \in {"0-0", "0 - 0"} -> "DoubleLoss"
      [] OTHER -> "Ongoing"

GameResultToString(r) ==
    CASE r = "Ongoing" -> "*"
      [] r = "WhiteWins" -> "1-0"
      [] r = "Draw" -> "=-="
      [] r = "BlackWins" -> "0-1"
      [] r = "DoubleLoss" -> "0-0"

PlayerResultFromStr(s) ==
    CASE s = "win" -> "Win"
      [] s = "draw" -> "Draw"
      [] OTHER -> "Lose"

\* TryFrom<&str> for PlayerStatus lower-cases its input; "Err" is the
\* InvalidPlayerStatus error.
PlayerStatusTryFrom(s) ==
    CASE s \in {"inactive", "Inactive"} -> "Inactive"
      [] s \in {"active", "Active"} -> "Active"
      [] OTHER -> "Err"

PlayerStatusFromStr(s) == IF s = "inactive" THEN "Inactive" ELSE "Active"

PlayerStatusToString(st) == IF st = "Inactive" THEN "inactive" ELSE "active"

\* Title as its position in the enum (derive(PartialOrd, Ord) compares these).
TitleFromStr(s) ==
    CASE s = "wnm" -> 1
      [] s = "wcm" -> 2
      [] s = "wfm" -> 3
      [] s = "nm" -> 4
      [] s = "cm" -> 5
      [] s = "wim" -> 6
      [] s = "fm" -> 7
      [] s = "wgm" -> 8
      [] s = "im" -> 9
      [] s = "gm" -> 10
      [] OTHER -> 0

Other(c) == IF c = "White" THEN "Black" ELSE "White"

\* HistoryItem, with every field present in every variant.
NotPaired(score) ==
    [kind |-> "NotPaired", score |-> score, opponent_id |-> 0, color |-> "-", result |-> "-"]
Bye ==
    [kind |-> "Bye", score |-> 0, opponent_id |-> 0, color |-> "-", result |-> "-"]
Game(opp, color, result) ==
    [kind |-> "Game", score |-> 0, opponent_id |-> opp, color |-> color, result |-> result]

\* The points of one history item (the match arms of Player::tournament_score).
ItemScore(item) ==
    CASE item.kind = "NotPaired" -> item.score
      [] item.kind = "Bye" -> 2
      [] item.kind = "Game" ->
            CASE item.color = "White" /\ item.result = "WhiteWins" -> 2
              [] item.color = "White" /\ item.result = "Draw" -> 1
              [] item.color = "Black" /\ item.result = "Draw" -> 1
              [] item.color = "Black" /\ item.result = "BlackWins" -> 2
              [] OTHER -> 0

tournament_score(p) == SumSeq([i \in DOMAIN p.history |-> ItemScore(p.history[i])])

byes(p) == Cardinality({i \in DOMAIN p.history : p.history[i] = Bye})

RECURSIVE ColorsOf(_)
ColorsOf(h) ==
    IF h = <<>> THEN <<>>
    ELSE IF Head(h).kind = "Game" THEN <<Head(h).color>> \o ColorsOf(Tail(h))
    ELSE ColorsOf(Tail(h))

color_history(p) == ColorsOf(p.history)

\* (variant: a history that never reports an earlier meeting)
has_played_never(p, player_id) == FALSE

has_played(p, player_id) ==
    \E i \in DOMAIN p.history :
        p.history[i].kind = "Game" /\ p.history[i].opponent_id = player_id

(***************************************************************************)
(* services/tournament_service.rs: read_tournament and the assembly of the *)
(* Tournament model from the rows read.                                    *)
(***************************************************************************)
\* TournamentDbData: the rows the four selects of read_tournament return.
read_tournament ==
    [current_round |-> current_round, num_rounds |-> num_rounds, end_date |-> end_date,
     players |-> registrations, pairings |-> pairings, pairing_gaps |-> pairing_gaps]

\* The assembly indexes history, results and byes by the round of each row and
\* looks each row's player up: a round at or beyond current_round, or an unknown
\* player, panics.
FromPanics(data) ==
    \/ \E i \in DOMAIN data.pairing_gaps :
          \/ data.pairing_gaps[i].round_id >= data.current_round
          \/ data.pairing_gaps[i].player_id \notin DOMAIN data.players
    \/ \E i \in DOMAIN data.pairings :
          \/ data.pairings[i].round_number >= data.current_round
          \/ data.pairings[i].white_id \notin DOMAIN data.players
          \/ data.pairings[i].black_id \notin DOMAIN data.players

\* history[round] of a player after the two loops: a pairing row overwrites a
\* gap row, and of several rows for the same round the last one read stays.
HistoryItemOf(data, id, round) ==
    LET games == {i \in DOMAIN data.pairings :
                     /\ data.pairings[i].round_number = round
                     /\ id \in {data.pairings[i].white_id, data.pairings[i].black_id}}
        gaps == {i \in DOMAIN data.pairing_gaps :
                     /\ data.pairing_gaps[i].round_id = round
                     /\ data.pairing_gaps[i].player_id = id}
    IN  IF games # {}
        THEN LET row == data.pairings[CHOOSE i \in games : \A j \in games : j <= i]
                 result == IF row.result = NULL THEN "Ongoing"
                           ELSE GameResultFromStr(row.result)
             IN  IF row.black_id = id
                 THEN Game(row.white_id, "Black", result)
                 ELSE Game(row.black_id, "White", result)
        ELSE IF gaps # {}
        THEN LET gap == data.pairing_gaps[CHOOSE i \in gaps : \A j \in gaps : j <= i]
             IN  IF gap.is_bye THEN Bye ELSE NotPaired(gap.score)
        ELSE NotPaired(0)

\* The pairing rows of one round in board order (stable).
RoundRows(data, round) ==
    LET rows == SelectSeq(data.pairings, LAMBDA row : row.round_number = round)
    IN  StableSortByKey(rows, [i \in DOMAIN rows |-> rows[i].board_number])

FromDbData(data) ==
    [players |->
        EagerSeq([id \in DOMAIN data.players |->
            [id |-> id,
             rating |-> data.players[id].rating,
             title |-> TitleFromStr(data.players[id].title),
             history |-> EagerSeq([r \in 1..data.current_round |->
                                      HistoryItemOf(data, id, r - 1)], data.current_round),
             floats |-> data.players[id].floats,
             status |-> PlayerStatusFromStr(data.players[id].status)]], Len(data.players)),
     pairings |->
        EagerSeq([r \in 1..data.current_round |->
            LET rows == RoundRows(data, r - 1)
            IN  EagerSeq([b \in DOMAIN rows |-> <<rows[b].white_id, rows[b].black_id>>],
                         Len(rows))], data.current_round),
     results |->
        EagerSeq([r \in 1..data.current_round |->
            LET rows == RoundRows(data, r - 1)
            IN  EagerSeq([b \in DOMAIN rows |->
                    IF rows[b].result = NULL THEN "Ongoing"
                    ELSE GameResultFromStr(rows[b].result)], Len(rows))], data.current_round),
     byes |->
        EagerSeq([r \in 1..data.current_round |->
            LET gaps == SelectSeq(data.pairing_gaps,
                                  LAMBDA g : g.round_id = r - 1 /\ g.is_bye)
            IN  EagerSeq([i \in DOMAIN gaps |-> gaps[i].player_id], Len(gaps))],
            data.current_round),
     num_rounds |-> data.num_rounds,
     end_date |-> data.end_date]

(***************************************************************************)
(* The pairing builder (impl Tournament).                                  *)
(***************************************************************************)
PlayerIds(t) == DOMAIN t.players

\* The ids 0-based-ranked by an integer key with distinct values, ascending.
SeqByRank(S, rank) ==
    LET r == EagerFcn(rank, S)
    IN  EagerSeq([n \in 1..Cardinality(S) |-> CHOOSE x \in S : r[x] = n - 1], Cardinality(S))

\* The comparison of player_tpn's sorted_by: rating descending, then title
\* ascending.  TpnBefore: a sorts strictly before b.
TpnBefore(a, b) == a.rating > b.rating \/ (a.rating = b.rating /\ a.title < b.title)

\* player_tpn: the position of the player in the stable sort of the players.
\* The sort starts from the iteration order of the HashMap, which is any order
\* (the same one during a request), so its result is any arrangement of the ids
\* in which no player stands behind one it sorts strictly before.
SortedPlayerOrders(t) ==
    {order \in Perms(PlayerIds(t)) :
        \A i, j \in DOMAIN order :
            i < j => ~TpnBefore(t.players[order[j]], t.players[order[i]])}

player_tpn(sorted, player_id) == Position(sorted, player_id)

\* The TPN of every player, one assignment per possible iteration order.
TpnChoices(t) ==
    {EagerFcn([id \in PlayerIds(t) |-> player_tpn(sorted, id)], PlayerIds(t))
        : sorted \in SortedPlayerOrders(t)}

Scores(t) == EagerFcn([id \in PlayerIds(t) |-> tournament_score(t.players[id])], PlayerIds(t))

\* group_players_by_score: every player of the map, whatever the status, keyed
\* by tournament score, each group sorted by TPN.
group_players_by_score(t, tpn) ==
    LET sc == Scores(t)
    IN  EagerFcn([s \in {sc[id] : id \in PlayerIds(t)} |->
            LET members == {id \in PlayerIds(t) : sc[id] = s}
            IN  SeqByRank(members,
                    [id \in members |-> Cardinality({q \in members : tpn[q] < tpn[id]})])],
            {sc[id] : id \in PlayerIds(t)})

\* last_chunk::<2>() of a color history: the last two colors, if there are two.
HasLastChunk2(colors) == Len(colors) >= 2
LastChunk2(colors) == <<colors[Len(colors) - 1], colors[Len(colors)]>>

BaseWeight == 5000

\* (variant: the float rank penalty takes the rank of the lower-scored player)
edge_weight_low_rank(p1, p2, group_ranks, group_len, min_score) ==
    LET p1_colors == color_history(p1)
        p2_colors == color_history(p2)
        s1 == tournament_score(p1)
        s2 == tournament_score(p2)
        score_diff == AbsDiff(s1, s2)
        score_penalty ==
            CASE score_diff = 0 -> 0
              [] score_diff = 1 -> 80
              [] score_diff = 2 -> 570
              [] score_diff = 3 -> 1350
              [] score_diff = 4 -> 2250
              [] OTHER -> 2250 + score_diff * 200
        color_penalty ==
            IF /\ p1_colors # <<>>
               /\ p2_colors # <<>>
               /\ p1_colors[Len(p1_colors)] = p2_colors[Len(p2_colors)]
            THEN 10 ELSE 0
        half_pair_deviation_penalty ==
            IF s1 = s2
            THEN LET mid == group_len[1] \div 2
                     dist == AbsDiff(group_ranks[1], group_ranks[2])
                 IN  AbsDiff(dist, mid) * 5
            ELSE 0
        repeated_float_penalty == (p1.floats + p2.floats) * 20
        isolation_bonus ==
            IF s1 # min_score /\ s2 # min_score
            THEN 200 \div Max2(group_len[1], group_len[2])
            ELSE 0
        float_rank_penalty ==
            IF s1 # s2
            THEN LET high_rank == IF s1 < s2 THEN group_ranks[1] ELSE group_ranks[2]
                     high_group_len == IF s1 < s2 THEN group_len[2] ELSE group_len[1]
                     max_rank == IF high_group_len >= 1 THEN high_group_len - 1 ELSE 0
                 IN  (max_rank - high_rank) * 10
            ELSE 0
    IN  IF /\ HasLastChunk2(p1_colors)
           /\ HasLastChunk2(p2_colors)
           /\ LastChunk2(p1_colors)[1] = LastChunk2(p1_colors)[2]
           /\ LastChunk2(p1_colors) = LastChunk2(p2_colors)
        THEN [forbidden |-> 1, weight |-> 0]
        ELSE [forbidden |-> 0,
              weight |-> BaseWeight - score_penalty + (s1 + s2) * 5 - color_penalty
                         - half_pair_deviation_penalty - repeated_float_penalty
                         + isolation_bonus - float_rank_penalty]

\* edge_weight.  isize::MIN (forbidden) is kept apart from the finite weights:
\* the sum of a matching is forbidden * isize::MIN + weight, and isize::MIN
\* outweighs every sum of finite weights the model can build.
edge_weight(p1, p2, group_ranks, group_len, min_score) ==
    LET p1_colors == color_history(p1)
        p2_colors == color_history(p2)
        s1 == tournament_score(p1)
        s2 == tournament_score(p2)
        score_diff == AbsDiff(s1, s2)
        score_penalty ==
            CASE score_diff = 0 -> 0
              [] score_diff = 1 -> 80
              [] score_diff = 2 -> 570
              [] score_diff = 3 -> 1350
              [] score_diff = 4 -> 2250
              [] OTHER -> 2250 + score_diff * 200
        color_penalty ==
            IF /\ p1_colors # <<>>
               /\ p2_colors # <<>>
               /\ p1_colors[Len(p1_colors)] = p2_colors[Len(p2_colors)]
            THEN 10 ELSE 0
        half_pair_deviation_penalty ==
            IF s1 = s2
            THEN LET mid == group_len[1] \div 2
                     dist == AbsDiff(group_ranks[1], group_ranks[2])
                 IN  AbsDiff(dist, mid) * 5
            ELSE 0
        repeated_float_penalty == (p1.floats + p2.floats) * 20
        isolation_bonus ==
            IF s1 # min_score /\ s2 # min_score
            THEN 200 \div Max2(group_len[1], group_len[2])
            ELSE 0
        float_rank_penalty ==
            IF s1 # s2
            THEN LET high_rank == IF s1 < s2 THEN group_ranks[2] ELSE group_ranks[1]
                     high_group_len == IF s1 < s2 THEN group_len[2] ELSE group_len[1]
                     max_rank == IF high_group_len >= 1 THEN high_group_len - 1 ELSE 0
                 IN  (max_rank - high_rank) * 10
            ELSE 0
    IN  IF /\ HasLastChunk2(p1_colors)
           /\ HasLastChunk2(p2_colors)
           /\ LastChunk2(p1_colors)[1] = LastChunk2(p1_colors)[2]
           /\ LastChunk2(p1_colors) = LastChunk2(p2_colors)
        THEN [forbidden |-> 1, weight |-> 0]
        ELSE [forbidden |-> 0,
              weight |-> BaseWeight - score_penalty + (s1 + s2) * 5 - color_penalty
                         - half_pair_deviation_penalty - repeated_float_penalty
                         + isolation_bonus - float_rank_penalty]

ActiveIds(t) == {id \in PlayerIds(t) : t.players[id].status = "Active"}

\* The byes of prepare_pairings: with an odd number of Active players, the last
\* of them in the order (byes descending, score descending, TPN ascending).
BottomOrder(t, tpn) ==
    LET act == ActiveIds(t)
        sc == Scores(t)
        Before(a, b) ==
            \/ byes(t.players[b]) < byes(t.players[a])
            \/ /\ byes(t.players[b]) = byes(t.players[a])
               /\ \/ sc[b] < sc[a]
                  \/ sc[b] = sc[a] /\ tpn[a] < tpn[b]
    IN  SeqByRank(act, [x \in act |-> Cardinality({y \in act : Before(y, x)})])

\* (variant: the first of the order instead of the last)
ByesOfFirst(t, tpn) ==
    IF Cardinality(ActiveIds(t)) % 2 # 0
    THEN LET sorted == BottomOrder(t, tpn) IN <<sorted[1]>>
    ELSE <<>>

ByesOf(t, tpn) ==
    IF Cardinality(ActiveIds(t)) % 2 # 0
    THEN LET sorted == BottomOrder(t, tpn) IN <<sorted[Len(sorted)]>>
    ELSE <<>>

\* (variant: the status of the players is not looked at)
EdgesAnyStatus(t, bye) ==
    {e \in SUBSET PlayerIds(t) :
        /\ Cardinality(e) = 2
        /\ \A p \in e : p \notin Range(bye)
        /\ \A p1, p2 \in e :
              p1 # p2 => ~has_played(t.players[p1], p2) /\ ~has_played(t.players[p2], p1)}

\* (variant: the player of the bye stays in the graph)
EdgesWithBye(t, bye) ==
    {e \in SUBSET PlayerIds(t) :
        /\ Cardinality(e) = 2
        /\ \A p \in e : t.players[p].status # "Inactive"
        /\ \A p1, p2 \in e :
              p1 # p2 => ~has_played(t.players[p1], p2) /\ ~has_played(t.players[p2], p1)}

\* The edges of the graph: both Active, neither the bye, never met.
Edges(t, bye) ==
    {e \in SUBSET PlayerIds(t) :
        /\ Cardinality(e) = 2
        /\ \A p \in e : t.players[p].status # "Inactive" /\ p \notin Range(bye)
        /\ \A p1, p2 \in e :
              p1 # p2 => ~has_played(t.players[p1], p2) /\ ~has_played(t.players[p2], p1)}

\* The weight closure handed to max_weight_matching, for the edge {a, b}.
WeightOf(t, groups, e) ==
    LET a == CHOOSE x \in e : \A y \in e : x <= y
        b == CHOOSE x \in e : \A y \in e : y <= x
        sc == Scores(t)
        min_score == CHOOSE s \in DOMAIN groups : \A s2 \in DOMAIN groups : s <= s2
    IN  edge_weight(t.players[a], t.players[b],
                    <<Position(groups[sc[a]], a), Position(groups[sc[b]], b)>>,
                    <<Len(groups[sc[a]]), Len(groups[sc[b]])>>,
                    min_score)

RECURSIVE AllMatchings(_)
AllMatchings(E) ==
    IF E = {} THEN {{}}
    ELSE LET e == CHOOSE x \in E : TRUE
         IN  AllMatchings(E \ {e})
               \cup {M \cup {e} : M \in AllMatchings({f \in E : f \cap e = {}})}

\* rustworkx max_weight_matching(graph, max_cardinality = true, weight_fn, ..):
\* a matching of maximum cardinality and, among those, of maximum total weight.
\* Which of several such matchings comes back is the library's choice.
max_weight_matching(E, W) ==
    LET all == AllMatchings(E)
        val == EagerFcn([M \in all |->
                   [card |-> Cardinality(M),
                    forbidden |-> SumOver(M, [e \in M |-> W[e].forbidden]),
                    weight |-> SumOver(M, [e \in M |-> W[e].weight])]], all)
        Better(N, M) ==
            \/ val[N].card > val[M].card
            \/ /\ val[N].card = val[M].card
               /\ \/ val[N].forbidden < val[M].forbidden
                  \/ val[N].forbidden = val[M].forbidden /\ val[N].weight > val[M].weight
    IN  {M \in all : \A N \in all : ~Better(N, M)}

\* The pairs of a matching as the library may return them: each edge in either
\* direction.
Orientations(M) ==
    {{IF f[e] THEN <<CHOOSE x \in e : \A y \in e : x <= y, CHOOSE x \in e : \A y \in e : y <= x>>
              ELSE <<CHOOSE x \in e : \A y \in e : y <= x, CHOOSE x \in e : \A y \in e : x <= y>>
        : e \in M} : f \in [M -> BOOLEAN]}

\* (variant: the lower score of the pair is not compared)
SortPairsNoLower(t, tpn, pairs) ==
    LET sc == Scores(t)
        hi(pr) == Max2(sc[pr[1]], sc[pr[2]])
        mt(pr) == Min2(tpn[pr[1]], tpn[pr[2]])
        Before(a, b) ==
            \/ hi(a) > hi(b)
            \/ hi(a) = hi(b) /\ mt(a) < mt(b)
    IN  SeqByRank(pairs, [x \in pairs |-> Cardinality({y \in pairs : Before(y, x)})])

\* pairings.sort_by: higher score of the pair descending, lower score of the
\* pair descending, smaller TPN of the pair ascending.
SortPairs(t, tpn, pairs) ==
    LET sc == Scores(t)
        hi(pr) == Max2(sc[pr[1]], sc[pr[2]])
        lo(pr) == Min2(sc[pr[1]], sc[pr[2]])
        mt(pr) == Min2(tpn[pr[1]], tpn[pr[2]])
        Before(a, b) ==
            \/ hi(a) > hi(b)
            \/ hi(a) = hi(b) /\ lo(a) > lo(b)
            \/ hi(a) = hi(b) /\ lo(a) = lo(b) /\ mt(a) < mt(b)
    IN  SeqByRank(pairs, [x \in pairs |-> Cardinality({y \in pairs : Before(y, x)})])

\* The floats of prepare_pairings: the lower-scored player of each pair whose
\* two scores differ.
\* (variant: the higher-scored player of the pair)
FloatsOfHigher(t, prs) ==
    LET sc == Scores(t)
        cross == SelectSeq(prs, LAMBDA pr : sc[pr[1]] # sc[pr[2]])
    IN  [i \in DOMAIN cross |->
            IF sc[cross[i][1]] > sc[cross[i][2]] THEN cross[i][1] ELSE cross[i][2]]

FloatsOf(t, prs) ==
    LET sc == Scores(t)
        cross == SelectSeq(prs, LAMBDA pr : sc[pr[1]] # sc[pr[2]])
    IN  [i \in DOMAIN cross |->
            IF sc[cross[i][1]] > sc[cross[i][2]] THEN cross[i][2] ELSE cross[i][1]]

\* (variant: prepare_pairings without the terminal check)
prepare_pairings_no_terminal(t, tpn) ==
    LET bye == ByesOf(t, tpn)
        groups == group_players_by_score(t, tpn)
        E == Edges(t, bye)
        W == EagerFcn([e \in E |-> WeightOf(t, groups, e)], E)
    IN  {[err |-> "Ok",
          pairings |-> SortPairs(t, tpn, pairs),
          byes |-> bye,
          floats |-> FloatsOf(t, SortPairs(t, tpn, pairs))]
           : pairs \in UNION {Orientations(M) : M \in max_weight_matching(E, W)}}

\* prepare_pairings: every result it may return (one per optimal matching and
\* direction of its pairs).
prepare_pairings(t, tpn) ==
    IF Len(t.pairings) = t.num_rounds
    THEN {[err |-> "TournamentEnded", pairings |-> <<>>, byes |-> <<>>, floats |-> <<>>]}
    ELSE LET bye == ByesOf(t, tpn)
             groups == group_players_by_score(t, tpn)
             E == Edges(t, bye)
             W == EagerFcn([e \in E |-> WeightOf(t, groups, e)], E)
         IN  {[err |-> "Ok",
               pairings |-> SortPairs(t, tpn, pairs),
               byes |-> bye,
               floats |-> FloatsOf(t, SortPairs(t, tpn, pairs))]
                : pairs \in UNION {Orientations(M) : M \in max_weight_matching(E, W)}}

(***************************************************************************)
(* The standings calculator (Tournament::standings).                       *)
(***************************************************************************)
\* (variant: a bye counted as a draw)
StandingsRoundScoreHalfBye(item) ==
    CASE item.kind = "NotPaired" -> item.score
      [] item.kind = "Bye" -> 1
      [] item.kind = "Game" ->
            CASE item.color = "White" /\ item.result = "WhiteWins" -> 2
              [] item.color = "Black" /\ item.result = "BlackWins" -> 2
              [] item.result = "Draw" -> 1
              [] OTHER -> 0

\* The points standings() gives for one history item (both of its matches).
StandingsRoundScore(item) ==
    CASE item.kind = "NotPaired" -> item.score
      [] item.kind = "Bye" -> 2
      [] item.kind = "Game" ->
            CASE item.color = "White" /\ item.result = "WhiteWins" -> 2
              [] item.color = "Black" /\ item.result = "BlackWins" -> 2
              [] item.result = "Draw" -> 1
              [] OTHER -> 0

\* history.get(round): None (no such index) gives 0.
RoundScoreAt(p, round) ==
    IF round + 1 \in DOMAIN p.history THEN StandingsRoundScore(p.history[round + 1]) ELSE 0

\* prev_scores after the first n rounds of the loop: for every player
\*   prev.score += round_score; prev.progressive += standing.progressive
\* where standing.score = prev.score + round_score and
\* standing.progressive = prev.progressive + standing.score.
RECURSIVE prev_scores(_, _)
prev_scores(t, n) ==
    IF n = 0
    THEN EagerFcn([id \in PlayerIds(t) |-> [score |-> 0, progressive |-> 0]], PlayerIds(t))
    ELSE LET prev == prev_scores(t, n - 1)
         IN  EagerFcn([id \in PlayerIds(t) |->
                 LET round_score == RoundScoreAt(t.players[id], n - 1)
                     standing_score == prev[id].score + round_score
                     standing_progressive == prev[id].progressive + standing_score
                 IN  [score |-> prev[id].score + round_score,
                      progressive |-> prev[id].progressive + standing_progressive]],
                 PlayerIds(t))

\* The opponents of the Game items of history.take(round + 1) that the player
\* map knows, in history order.
OpponentsUpTo(t, p, round) ==
    LET taken == SubSeq(p.history, 1, Min2(round + 1, Len(p.history)))
        games == SelectSeq(taken,
                     LAMBDA item : item.kind = "Game" /\ item.opponent_id \in PlayerIds(t))
    IN  [i \in DOMAIN games |-> games[i].opponent_id]

\* opponent_scores: each opponent's points over history.take(round + 1), sorted.
opponent_scores(t, p, round) ==
    LET opps == OpponentsUpTo(t, p, round)
        raw == EagerSeq([i \in DOMAIN opps |->
                   LET h == t.players[opps[i]].history
                       taken == SubSeq(h, 1, Min2(round + 1, Len(h)))
                   IN  SumSeq([k \in DOMAIN taken |-> StandingsRoundScore(taken[k])])],
                   Len(opps))
    IN  StableSortByKey(raw, raw)

\* iter().skip(n).sum()
SumSkip(s, n) == SumSeq(SubSeq(s, n + 1, Len(s)))

\* (variant: the median taken without pop(), so only the lowest is dropped)
BuchholzOfNoPop(sorted) ==
    [buchholz |-> SumSeq(sorted),
     cut_one_buchholz |-> SumSkip(sorted, 1),
     median_buchholz |-> IF sorted # <<>> THEN SumSkip(sorted, 1) ELSE 0]

\* The three Buchholz columns from the sorted opponent scores.
BuchholzOf(sorted) ==
    [buchholz |-> SumSeq(sorted),
     cut_one_buchholz |-> SumSkip(sorted, 1),
     median_buchholz |->
        IF sorted # <<>> THEN SumSkip(SubSeq(sorted, 1, Len(sorted) - 1), 1) ELSE 0]

\* The entry of one player in the ranking of one round, before the sort
\* (prev: the player's entry of prev_scores when the round begins).
standing_of(t, prev, id, round) ==
    LET score == prev.score + RoundScoreAt(t.players[id], round)
        b == BuchholzOf(opponent_scores(t, t.players[id], round))
    IN  [player_id |-> id,
         score |-> score,
         buchholz |-> b.buchholz,
         median_buchholz |-> b.median_buchholz,
         cut_one_buchholz |-> b.cut_one_buchholz,
         progressive |-> prev.progressive + score]

\* (variant: only the score is compared)
RankedBeforeScoreOnly(a, b) == a.score > b.score

\* ranking.sort_by: score, median, cut one, buchholz, progressive, all descending.
RankedBefore(a, b) ==
    \/ a.score > b.score
    \/ /\ a.score = b.score
       /\ \/ a.median_buchholz > b.median_buchholz
          \/ /\ a.median_buchholz = b.median_buchholz
             /\ \/ a.cut_one_buchholz > b.cut_one_buchholz
                \/ /\ a.cut_one_buchholz = b.cut_one_buchholz
                   /\ \/ a.buchholz > b.buchholz
                      \/ a.buchholz = b.buchholz /\ a.progressive > b.progressive

\* The entries of the rankings of all rounds as the two inner loops of
\* standings() leave them, by player: what they hold does not depend on the
\* order in which the loops visit the players.
standing_entries(t) ==
    EagerSeq([r \in 1..Len(t.pairings) |->
        LET prev == prev_scores(t, r - 1)
        IN  EagerFcn([id \in PlayerIds(t) |-> standing_of(t, prev[id], id, r - 1)],
                     PlayerIds(t))],
        Len(t.pairings))

\* The comparisons of ranking.sort_by, made once: before[r][a][b] says that
\* the entry of player a sorts strictly before the one of player b in round r.
ranked_before(entries) ==
    EagerSeq([r \in DOMAIN entries |->
        EagerFcn([a \in DOMAIN entries[r] |->
            EagerFcn([b \in DOMAIN entries[r] |-> RankedBefore(entries[r][a], entries[r][b])],
                     DOMAIN entries[r])],
            DOMAIN entries[r])],
        Len(entries))

\* The rankings of standings() from the entries: order is the iteration order
\* of the player map, in which the entries of a round are pushed before the
\* stable sort_by.
sorted_rankings(entries, before, order) ==
    EagerSeq([r \in DOMAIN entries |->
        LET pos == EagerSeq([i \in DOMAIN order |->
                       Cardinality({j \in DOMAIN order :
                          \/ before[r][order[j]][order[i]]
                          \/ ~before[r][order[i]][order[j]] /\ j < i}) + 1],
                       Len(order))
        IN  EagerSeq([n \in DOMAIN order |->
                         entries[r][order[CHOOSE i \in DOMAIN order : pos[i] = n]]],
                     Len(order))],
        Len(entries))

\* standings(): one ranking per round.
standings(t, order) ==
    sorted_rankings(standing_entries(t), ranked_before(standing_entries(t)), order)

\* Every result of standings(), one per iteration order of the player map.
AllStandings(t) ==
    LET entries == standing_entries(t)
        before == ranked_before(entries)
    IN  {sorted_rankings(entries, before, order) : order \in Perms(PlayerIds(t))}

\* (variant: a Draw of inactive_scores gives the score 0)
process_pairings_draw_zero(t, prs, bye, inactive_scores) ==
    LET round == Len(t.pairings)
        inactive == {id \in PlayerIds(t) : t.players[id].status = "Inactive"}
        inactive_seq == SeqByRank(inactive,
                            [id \in inactive |-> Cardinality({q \in inactive : q < id})])
        gap_score(id) ==
            IF id \in DOMAIN inactive_scores
            THEN CASE inactive_scores[id] = "Win" -> 2
                   [] inactive_scores[id] = "Lose" -> 0
                   [] inactive_scores[id] = "Draw" -> 0
            ELSE 0
    IN  [pairings |->
            [b \in DOMAIN prs |->
                [round_number |-> round, board_number |-> b - 1,
                 white_id |-> prs[b][1], black_id |-> prs[b][2]]],
         gaps |->
            [i \in DOMAIN bye |->
                [player_id |-> bye[i], round_id |-> round, score |-> 2, is_bye |-> TRUE]]
            \o [i \in DOMAIN inactive_seq |->
                [player_id |-> inactive_seq[i], round_id |-> round,
                 score |-> gap_score(inactive_seq[i]), is_bye |-> FALSE]]]

\* process_pairings: the pairing rows (board = position in the list) and the gap
\* rows: the byes, then every Inactive player with the score of inactive_scores.
process_pairings(t, prs, bye, inactive_scores) ==
    LET round == Len(t.pairings)
        inactive == {id \in PlayerIds(t) : t.players[id].status = "Inactive"}
        inactive_seq == SeqByRank(inactive,
                            [id \in inactive |-> Cardinality({q \in inactive : q < id})])
        gap_score(id) ==
            IF id \in DOMAIN inactive_scores
            THEN CASE inactive_scores[id] = "Win" -> 2
                   [] inactive_scores[id] = "Lose" -> 0
                   [] inactive_scores[id] = "Draw" -> 1
            ELSE 0
    IN  [pairings |->
            [b \in DOMAIN prs |->
                [round_number |-> round, board_number |-> b - 1,
                 white_id |-> prs[b][1], black_id |-> prs[b][2]]],
         gaps |->
            [i \in DOMAIN bye |->
                [player_id |-> bye[i], round_id |-> round, score |-> 2, is_bye |-> TRUE]]
            \o [i \in DOMAIN inactive_seq |->
                [player_id |-> inactive_seq[i], round_id |-> round,
                 score |-> gap_score(inactive_seq[i]), is_bye |-> FALSE]]]

NoPairings == [round |-> 0, pairings |-> <<>>, gaps |-> <<>>, floats |-> <<>>]

\* (variant: current_color stays first_color for every pair)
FirstRoundColorsSame(prs, first_color) ==
    [i \in DOMAIN prs |->
        LET pair == prs[i]
        IN  IF first_color = "White" /\ pair[1] > pair[2] THEN <<pair[2], pair[1]>>
            ELSE IF first_color = "Black" /\ pair[1] < pair[2] THEN <<pair[2], pair[1]>>
            ELSE pair]

\* Round 1: the pair at position i of the sorted list is put in ascending id
\* order when current_color is White and in descending order when it is Black;
\* current_color starts at first_color and alternates.
FirstRoundColors(prs, first_color) ==
    [i \in DOMAIN prs |->
        LET current_color == IF i % 2 = 1 THEN first_color ELSE Other(first_color)
            pair == prs[i]
        IN  IF current_color = "White" /\ pair[1] > pair[2] THEN <<pair[2], pair[1]>>
            ELSE IF current_color = "Black" /\ pair[1] < pair[2] THEN <<pair[2], pair[1]>>
            ELSE pair]

\* prep: the result of self.prepare_pairings(), one of prepare_pairings(t, tpn).
generate_first_round_pairings(t, tpn, prep, inactive_scores, first_color) ==
    IF prep.err # "Ok"
    THEN [err |-> prep.err, np |-> NoPairings]
    ELSE LET rows == process_pairings(t, FirstRoundColors(prep.pairings, first_color),
                                      prep.byes, inactive_scores)
         IN  [err |-> "Ok",
              np |-> [round |-> 0, pairings |-> rows.pairings, gaps |-> rows.gaps,
                      floats |-> prep.floats]]

ColorBalance(colors) ==
    SumSeq([i \in DOMAIN colors |-> IF colors[i] = "White" THEN 1 ELSE 0 - 1])

\* (variant: on equal last colors and equal balances the order is kept)
NextRoundColorsNoTpn(t, tpn, pair) ==
    LET p1 == t.players[pair[1]]
        p2 == t.players[pair[2]]
        p1_colors == color_history(p1)
        p2_colors == color_history(p2)
        swapped == <<pair[2], pair[1]>>
    IN  CASE p1_colors = <<>> /\ p2_colors = <<>> -> pair
          [] p1_colors = <<>> /\ p2_colors # <<>> ->
                IF p2_colors[Len(p2_colors)] = "Black" THEN swapped ELSE pair
          [] p1_colors # <<>> /\ p2_colors = <<>> ->
                IF p1_colors[Len(p1_colors)] = "White" THEN swapped ELSE pair
          [] OTHER ->
                LET p1_last == p1_colors[Len(p1_colors)]
                    p2_last == p2_colors[Len(p2_colors)]
                IN  IF p1_last # p2_last
                    THEN IF p1_last = "White" THEN swapped ELSE pair
                    ELSE IF ColorBalance(p1_colors) > ColorBalance(p2_colors) THEN swapped
                    ELSE pair

\* The colors of one pair in a round after the first: <<white, black>>.
NextRoundColors(t, tpn, pair) ==
    LET p1 == t.players[pair[1]]
        p2 == t.players[pair[2]]
        p1_colors == color_history(p1)
        p2_colors == color_history(p2)
        swapped == <<pair[2], pair[1]>>
    IN  CASE p1_colors = <<>> /\ p2_colors = <<>> -> pair
          [] p1_colors = <<>> /\ p2_colors # <<>> ->
                IF p2_colors[Len(p2_colors)] = "Black" THEN swapped ELSE pair
          [] p1_colors # <<>> /\ p2_colors = <<>> ->
                IF p1_colors[Len(p1_colors)] = "White" THEN swapped ELSE pair
          [] OTHER ->
                LET p1_last == p1_colors[Len(p1_colors)]
                    p2_last == p2_colors[Len(p2_colors)]
                IN  IF p1_last # p2_last
                    THEN IF p1_last = "White" THEN swapped ELSE pair
                    ELSE IF ColorBalance(p1_colors) > ColorBalance(p2_colors) THEN swapped
                    ELSE IF /\ ColorBalance(p1_colors) = ColorBalance(p2_colors)
                            /\ tpn[p1.id] < tpn[p2.id]
                    THEN swapped
                    ELSE pair

generate_next_round_pairings(t, tpn, prep, inactive_scores) ==
    IF prep.err # "Ok"
    THEN [err |-> prep.err, np |-> NoPairings]
    ELSE LET colored == [i \in DOMAIN prep.pairings |->
                            NextRoundColors(t, tpn, prep.pairings[i])]
             rows == process_pairings(t, colored, prep.byes, inactive_scores)
         IN  IF rows.pairings = <<>>
             THEN [err |-> "EmptyPairingsGenerated", np |-> NoPairings]
             ELSE [err |-> "Ok",
                   np |-> [round |-> Len(t.pairings), pairings |-> rows.pairings,
                           gaps |-> rows.gaps, floats |-> prep.floats]]

\* TryFrom<Vec<(u32, String)>> for InactiveScores: the map, or the error
\* DuplicatePlayerResult for an unknown word or a second entry of a player.
RECURSIVE InactiveScoresFrom(_, _)
InactiveScoresFrom(payload, inner) ==
    IF payload = <<>> THEN [err |-> "Ok", map |-> inner]
    ELSE LET player_id == Head(payload)[1]
             word == Head(payload)[2]
         IN  IF word \notin {"win", "draw", "loss"} \/ player_id \in DOMAIN inner
             THEN [err |-> "DuplicatePlayerResult", map |-> << >>]
             ELSE InactiveScoresFrom(Tail(payload),
                     [id \in DOMAIN inner \cup {player_id} |->
                         IF id = player_id
                         THEN CASE word = "win" -> "Win"
                                [] word = "draw" -> "Draw"
                                [] word = "loss" -> "Lose"
                         ELSE inner[id]])

\* check_user_tournament_permissions for a caller who created the tournament (or
\* is an admin): refused once the tournament has ended.
check_user_tournament_permissions == end_date = NULL

Failed(e) == [err |-> e, np |-> NoPairings]

\* What the builder of one request may work with: a TPN assignment (the
\* iteration order of the player map) and a result of prepare_pairings under it.
BuilderChoices(t) ==
    UNION {{[tpn |-> tpn, prep |-> prep] : prep \in prepare_pairings(t, tpn)}
              : tpn \in TpnChoices(t)}

\* generate_next_pairings once the permission check has passed.
generate_next_pairings_permitted(t, choices, first_color, payload) ==
    LET scores == InactiveScoresFrom(payload, << >>)
    IN  IF scores.err # "Ok" THEN {Failed(scores.err)}
        ELSE IF Cardinality(PlayerIds(t)) < 2 THEN {Failed("InsufficientPlayers")}
        ELSE IF Len(t.pairings) = 0
        THEN {generate_first_round_pairings(t, c.tpn, c.prep, scores.map,
                        IF first_color = "black" THEN "Black" ELSE "White")
                      : c \in choices}
        ELSE IF \E b \in DOMAIN t.results[Len(t.results)] :
                    t.results[Len(t.results)][b] = "Ongoing"
        THEN {Failed("RoundNotDone")}
        ELSE {generate_next_round_pairings(t, c.tpn, c.prep, scores.map) : c \in choices}

\* services::generate_next_pairings on the model t assembled from the rows
\* read: every result the request may compute (choices: BuilderChoices(t)).
generate_next_pairings(t, choices, first_color, payload) ==
    IF ~check_user_tournament_permissions THEN {Failed("InsufficientPermissions")}
    ELSE generate_next_pairings_permitted(t, choices, first_color, payload)

(***************************************************************************)
(* The writes of the repositories.                                         *)
(***************************************************************************)
\* NewPairings::commit, one transaction.  pairings[0] of an empty list panics
\* and the transaction is rolled back.
CommitPanics(np) == np.pairings = <<>>

commit(np) ==
    /\ pairings' = pairings \o
          [i \in DOMAIN np.pairings |->
              [round_number |-> np.pairings[i].round_number,
               board_number |-> np.pairings[i].board_number,
               white_id |-> np.pairings[i].white_id,
               black_id |-> np.pairings[i].black_id,
               result |-> NULL]]
    /\ pairing_gaps' = pairing_gaps \o np.gaps
    /\ registrations' =
          [id \in DOMAIN registrations |->
              [registrations[id] EXCEPT
                 !.floats = @ + Cardinality({i \in DOMAIN np.floats : np.floats[i] = id})]]
    /\ current_round' = current_round + 1

\* update_game_result: the rows of that round and board get the Display form
\* of the result.
update_game_result(round_id, board_id, result) ==
    pairings' =
        [i \in DOMAIN pairings |->
            IF pairings[i].round_number = round_id /\ pairings[i].board_number = board_id
            THEN [pairings[i] EXCEPT !.result = GameResultToString(result)]
            ELSE pairings[i]]

\* create_tournament_registration: the registration row and, when pairings
\* exist, one gap row for every round up to the last one that has pairings.
create_tournament_registration(rating, title, status, absent_results) ==
    LET registration_id == Len(registrations) + 1
        rounds == {pairings[i].round_number : i \in DOMAIN pairings}
        last_round == CHOOSE r \in rounds : \A r2 \in rounds : r2 <= r
        score(round_id) ==
            IF round_id + 1 \in DOMAIN absent_results
            THEN CASE PlayerResultFromStr(absent_results[round_id + 1]) = "Win" -> 2
                   [] PlayerResultFromStr(absent_results[round_id + 1]) = "Draw" -> 1
                   [] OTHER -> 0
            ELSE 0
    IN  /\ registrations' = Append(registrations,
              [rating |-> rating, title |-> title, status |-> status, floats |-> 0])
        /\ pairing_gaps' =
              IF pairings = <<>> THEN pairing_gaps
              ELSE pairing_gaps \o
                     [r \in 1..(last_round + 1) |->
                         [player_id |-> registration_id, round_id |-> r - 1,
                          score |-> score(r - 1), is_bye |-> FALSE]]

update_registration_status(registration_id, status) ==
    registrations' =
        [id \in DOMAIN registrations |->
            IF id = registration_id
            THEN [registrations[id] EXCEPT !.status = PlayerStatusToString(status)]
            ELSE registrations[id]]

(***************************************************************************)
(* The requests, one at a time: each action is a whole handler.            *)
(***************************************************************************)
Requests == {1, 2}

Idle == [pc |-> "idle", np |-> NoPairings]

Init ==
    /\ registrations = <<>>
    /\ pairings = <<>>
    /\ pairing_gaps = <<>>
    /\ current_round = 0
    /\ num_rounds = NumRounds
    /\ end_date = NULL
    /\ req = [i \in Requests |-> Idle]
    /\ status_updates = 0

RegistrationInputs ==
    {[rating |-> 2000, title |-> "", status |-> "active"],
     [rating |-> 2000, title |-> "gm", status |-> "active"],
     [rating |-> 1800, title |-> "", status |-> "inactive"]}

InactiveScoreInputs ==
    {<<>>, <<<<1, "win">>>>, <<<<2, "draw">>>>, <<<<1, "lose">>>>, <<<<2, "win">>, <<2, "loss">>>>}

\* POST /{id}/register
RegisterPlayer ==
    /\ Len(registrations) < MaxPlayers
    /\ \E reg \in RegistrationInputs, absent_results \in AbsentInputs :
          IF check_user_tournament_permissions
          THEN create_tournament_registration(reg.rating, reg.title, reg.status,
                                              absent_results)
          ELSE UNCHANGED <<registrations, pairing_gaps>>
    /\ UNCHANGED <<pairings, current_round, num_rounds, end_date, req, status_updates>>

\* POST /{id}/player-status
UpdatePlayerStatus ==
    /\ status_updates < MaxStatusUpdates
    /\ \E id \in 1..MaxPlayers, word \in StatusUpdateInputs :
          IF check_user_tournament_permissions /\ PlayerStatusTryFrom(word) # "Err"
          THEN /\ update_registration_status(id, PlayerStatusTryFrom(word))
               /\ status_updates' = status_updates + 1
          ELSE UNCHANGED <<registrations, status_updates>>
    /\ UNCHANGED <<pairings, pairing_gaps, current_round, num_rounds, end_date, req>>

\* POST /{id}/pair: generate_next_pairings, then commit.
\* (t and choices are bound once for all the inputs; the builder is consulted
\* only when generate_next_pairings gets as far as calling it.)
BuilderReachedPermitted(t) ==
    /\ Cardinality(PlayerIds(t)) >= 2
    /\ \/ Len(t.pairings) = 0
       \/ \A b \in DOMAIN t.results[Len(t.results)] : t.results[Len(t.results)][b] # "Ongoing"

BuilderReached(t) == check_user_tournament_permissions /\ BuilderReachedPermitted(t)

Pair ==
    /\ \E t \in {FromDbData(read_tournament)} :
       \E choices \in {IF BuilderReached(t) THEN BuilderChoices(t) ELSE {}} :
       \E first_color \in FirstColorInputs, payload \in InactiveScoreInputs :
       \E out \in generate_next_pairings(t, choices, first_color, payload) :
           IF out.err = "Ok" /\ ~CommitPanics(out.np)
           THEN commit(out.np)
           ELSE UNCHANGED <<registrations, pairings, pairing_gaps, current_round>>
    /\ UNCHANGED <<num_rounds, end_date, req, status_updates>>

\* (variant: the round is not compared with current_round - 1)
update_result_permitted_any_round(t, round_id, board_id, word) ==
    IF GameResultFromStr(word) = "Ongoing" THEN "Unknown"
    ELSE IF t.pairings = <<>> THEN "TournamentNotStarted"
    ELSE IF round_id + 1 \notin DOMAIN t.results THEN "RoundNotFound"
    ELSE IF board_id + 1 \notin DOMAIN t.results[round_id + 1] THEN "Unknown"
    ELSE "Ok"

\* (variant: the round is compared with current_round - 2)
update_result_permitted_two_back(t, round_id, board_id, word) ==
    IF GameResultFromStr(word) = "Ongoing" THEN "Unknown"
    ELSE IF t.pairings = <<>> THEN "TournamentNotStarted"
    ELSE IF round_id + 1 \notin DOMAIN t.results THEN "RoundNotFound"
    ELSE IF board_id + 1 \notin DOMAIN t.results[round_id + 1] THEN "Unknown"
    ELSE IF round_id < Len(t.pairings) - 2 THEN "InvalidRound"
    ELSE "Ok"

\* services::update_result once the permission check has passed: the error it
\* returns, or "Ok".
update_result_permitted(t, round_id, board_id, word) ==
    IF GameResultFromStr(word) = "Ongoing" THEN "Unknown"
    ELSE IF t.pairings = <<>> THEN "TournamentNotStarted"
    ELSE IF round_id + 1 \notin DOMAIN t.results THEN "RoundNotFound"
    ELSE IF board_id + 1 \notin DOMAIN t.results[round_id + 1] THEN "Unknown"
    ELSE IF round_id < Len(t.pairings) - 1 THEN "InvalidRound"
    ELSE "Ok"

\* services::update_result: the error it returns, or "Ok".
update_result_check(t, round_id, board_id, word) ==
    IF ~check_user_tournament_permissions THEN "InsufficientPermissions"
    ELSE update_result_permitted(t, round_id, board_id, word)

\* POST /{id}/result
UpdateResult ==
    /\ \E t \in {FromDbData(read_tournament)} :
       \E round_id \in 0..NumRounds, board_id \in 0..(MaxPlayers \div 2), word \in ResultInputs :
           IF update_result_check(t, round_id, board_id, word) = "Ok"
           THEN update_game_result(round_id, board_id, GameResultFromStr(word))
           ELSE UNCHANGED pairings
    /\ UNCHANGED <<registrations, pairing_gaps, current_round, num_rounds, end_date, req,
                   status_updates>>

Next ==
    \/ RegisterPlayer
    \/ UpdatePlayerStatus
    \/ Pair
    \/ UpdateResult

Spec == Init /\ [][Next]_vars

(***************************************************************************)
(* Properties of the requests served one at a time (Spec).                 *)
(***************************************************************************)
\* The model the next request would assemble from the rows now stored.
Built == FromDbData(read_tournament)

\* The rows a step adds to the pairings and pairing_gaps tables.
NewRows == {pairings'[i] : i \in DOMAIN pairings' \ DOMAIN pairings}
NewGaps == {pairing_gaps'[i] : i \in DOMAIN pairing_gaps' \ DOMAIN pairing_gaps}
NewByes == {g \in NewGaps : g.is_bye}

\* C1: with the rounds committed one after another, no two pairing rows of
\* different rounds of the tournament hold the same two players.
NoRematch ==
    \A i, j \in DOMAIN pairings :
        pairings[i].round_number # pairings[j].round_number
            => {pairings[i].white_id, pairings[i].black_id}
                 # {pairings[j].white_id, pairings[j].black_id}

\* Two rounds are paired, the second one with a player of the first round
\* against somebody new.
NoRematchWitness ==
    \E i, j \in DOMAIN pairings :
        /\ pairings[i].round_number < pairings[j].round_number
        /\ {pairings[i].white_id, pairings[i].black_id}
              \cap {pairings[j].white_id, pairings[j].black_id} # {}

\* C4: the floats counter of a registration starts at 0 and every commit of a
\* round adds 1 to it exactly when the player is paired in that round against
\* an opponent whose tournament score at pairing time is strictly higher.
FloatsCounted ==
    [][LET t == Built
           sc == Scores(t)
           floated(id) ==
               \E row \in NewRows :
                   \/ row.white_id = id /\ sc[row.black_id] > sc[id]
                   \/ row.black_id = id /\ sc[row.white_id] > sc[id]
       IN  /\ \A id \in DOMAIN registrations' \ DOMAIN registrations :
                 registrations'[id].floats = 0
           /\ \A id \in DOMAIN registrations :
                 registrations'[id].floats =
                     registrations[id].floats + (IF floated(id) THEN 1 ELSE 0)]_vars

\* One player has floated, another one has played and never floated.
FloatsCountedWitness ==
    /\ \E id \in DOMAIN registrations : registrations[id].floats >= 1
    /\ \E id \in DOMAIN registrations :
          /\ registrations[id].floats = 0
          /\ \E i \in DOMAIN pairings : id \in {pairings[i].white_id, pairings[i].black_id}

\* C5: a generated round has exactly one bye when the number of Active players
\* is odd and none when it is even, and the player of the bye is Active and in
\* no pair of the round.
ByePerRound ==
    [][current_round' # current_round =>
         LET t == Built
         IN  /\ Cardinality(NewByes) = (IF Cardinality(ActiveIds(t)) % 2 = 1 THEN 1 ELSE 0)
             /\ Cardinality({i \in DOMAIN pairing_gaps' \ DOMAIN pairing_gaps :
                                pairing_gaps'[i].is_bye}) <= 1
             /\ \A g \in NewByes :
                   /\ g.round_id = current_round
                   /\ g.player_id \in ActiveIds(t)
                   /\ \A row \in NewRows : g.player_id \notin {row.white_id, row.black_id}]_vars

\* One round was generated with a bye and another one without.
ByePerRoundWitness ==
    /\ \E r \in 0..(current_round - 1) :
          /\ \E i \in DOMAIN pairings : pairings[i].round_number = r
          /\ \E i \in DOMAIN pairing_gaps :
                pairing_gaps[i].round_id = r /\ pairing_gaps[i].is_bye
    /\ \E r \in 0..(current_round - 1) :
          /\ \E i \in DOMAIN pairings : pairings[i].round_number = r
          /\ \A i \in DOMAIN pairing_gaps :
                pairing_gaps[i].round_id = r => ~pairing_gaps[i].is_bye

\* C6: the bye goes to an Active player with the fewest byes so far, among
\* those to one with the lowest tournament score, and among those to the one
\* with the highest TPN (no other candidate sorts behind it by rating
\* descending, then title ascending).
ByeRecipient ==
    [][current_round' # current_round =>
         LET t == Built
             sc == Scores(t)
             act == ActiveIds(t)
             fewest == {p \in act : \A q \in act : byes(t.players[p]) <= byes(t.players[q])}
             lowest == {p \in fewest : \A q \in fewest : sc[p] <= sc[q]}
         IN  \A g \in NewByes :
                 /\ g.player_id \in lowest
                 /\ \A q \in lowest : ~TpnBefore(t.players[g.player_id], t.players[q])]_vars

\* A bye was given in a round after another player had already had one.
ByeRecipientWitness ==
    \E i, j \in DOMAIN pairing_gaps :
        /\ pairing_gaps[i].is_bye /\ pairing_gaps[j].is_bye
        /\ pairing_gaps[i].round_id < pairing_gaps[j].round_id
        /\ pairing_gaps[i].player_id # pairing_gaps[j].player_id

(***************************************************************************)
(* A tournament played through by a full roster (SpecRoster): RosterPlayers *)
(* players of different ratings, either all Active or all but the last one, *)
(* RosterRounds rounds, every board decided before the next round is paired.*)
(***************************************************************************)
InitRoster ==
    /\ \E last \in {"active", "inactive"} :
          registrations = [i \in 1..RosterPlayers |->
                              [rating |-> 2400 - 100 * i, title |-> "",
                               status |-> IF i = RosterPlayers THEN last ELSE "active",
                               floats |-> 0]]
    /\ pairings = <<>>
    /\ pairing_gaps = <<>>
    /\ current_round = 0
    /\ num_rounds = RosterRounds
    /\ end_date = NULL
    /\ req = [i \in Requests |-> Idle]
    /\ status_updates = 0

\* POST /{id}/pair with the score of a win for the last player, should that
\* player be Inactive.
PairRoster ==
    /\ \E t \in {FromDbData(read_tournament)} :
       \E choices \in {IF BuilderReached(t) THEN BuilderChoices(t) ELSE {}} :
       \E out \in generate_next_pairings(t, choices, NULL, <<<<RosterPlayers, "win">>>>) :
           /\ out.err = "Ok" /\ ~CommitPanics(out.np)
           /\ commit(out.np)
    /\ UNCHANGED <<num_rounds, end_date, req, status_updates>>

\* POST /{id}/result for the lowest board of the last round still without a
\* result.
ResultRoster ==
    /\ \E i \in DOMAIN pairings :
          /\ pairings[i].result = NULL
          /\ \A j \in DOMAIN pairings : pairings[j].result = NULL => i <= j
          /\ \E t \in {FromDbData(read_tournament)}, word \in {"1-0", "1/2-1/2", "0-1"} :
                /\ update_result_check(t, pairings[i].round_number,
                                       pairings[i].board_number, word) = "Ok"
                /\ update_game_result(pairings[i].round_number, pairings[i].board_number,
                                      GameResultFromStr(word))
    /\ UNCHANGED <<registrations, pairing_gaps, current_round, num_rounds, end_date, req,
                   status_updates>>

NextRoster == PairRoster \/ ResultRoster

SpecRoster == InitRoster /\ [][NextRoster]_vars

(***************************************************************************)
(* Properties of the standings.                                            *)
(***************************************************************************)
\* The round points as the standings are described: NotPaired{score} gives
\* score, Bye 2, a Game 2 for a win with the player's color, 1 for a draw and 0
\* for a loss, Ongoing or DoubleLoss.
RoundPoints(item) ==
    IF item.kind = "NotPaired" THEN item.score
    ELSE IF item.kind = "Bye" THEN 2
    ELSE IF item.result = "Draw" THEN 1
    ELSE IF item.result = "WhiteWins" /\ item.color = "White" THEN 2
    ELSE IF item.result = "BlackWins" /\ item.color = "Black" THEN 2
    ELSE 0

\* The cumulative score of a player over the rounds 0..=r.
CumulativePoints(p, r) ==
    SumOver(0..r, [k \in 0..r |-> RoundPoints(p.history[k + 1])])

\* C8: for every player and round r, with O the cumulative scores over the
\* rounds 0..=r of the opponents of the player's Games of the rounds 0..=r:
\* buchholz is the sum of O, cut_one_buchholz the sum without the lowest
\* element (0 when O has at most one), median_buchholz the sum without the
\* lowest and the highest (0 when O has fewer than two).
BuchholzColumns ==
    \A t \in {Built} : \A all \in {AllStandings(t)} :
        \A r \in 0..(current_round - 1) :
            LET expected == EagerFcn([id \in PlayerIds(t) |->
                    LET p == t.players[id]
                        games == {k \in 0..r : p.history[k + 1].kind = "Game"}
                        O == [k \in games |->
                                 CumulativePoints(t.players[p.history[k + 1].opponent_id], r)]
                        sum == SumOver(games, O)
                        lowest == CHOOSE x \in {O[k] : k \in games} : \A k \in games : x <= O[k]
                        highest == CHOOSE x \in {O[k] : k \in games} : \A k \in games : O[k] <= x
                    IN  [buchholz |-> sum,
                         cut_one |-> IF Cardinality(games) <= 1 THEN 0 ELSE sum - lowest,
                         median |-> IF Cardinality(games) >= 2 THEN sum - lowest - highest
                                    ELSE 0]], PlayerIds(t))
            IN  \A st \in all :
                    /\ {st[r + 1][i].player_id : i \in DOMAIN st[r + 1]} = PlayerIds(t)
                    /\ \A i \in DOMAIN st[r + 1] :
                          /\ st[r + 1][i].buchholz = expected[st[r + 1][i].player_id].buchholz
                          /\ st[r + 1][i].cut_one_buchholz
                                = expected[st[r + 1][i].player_id].cut_one
                          /\ st[r + 1][i].median_buchholz
                                = expected[st[r + 1][i].player_id].median

\* After four rounds a player has had a bye and met three opponents whose
\* cumulative scores are all different and not 0.
BuchholzColumnsWitness ==
    LET t == Built
    IN  \E id \in PlayerIds(t) :
        LET p == t.players[id]
            r == Len(p.history) - 1
            games == {k \in 0..r : p.history[k + 1].kind = "Game"}
            O == {CumulativePoints(t.players[p.history[k + 1].opponent_id], r) : k \in games}
        IN  /\ r = 3
            /\ \E k \in 0..r : p.history[k + 1].kind = "Bye"
            /\ Cardinality(games) = 3
            /\ Cardinality(O) = 3
            /\ 0 \notin O

\* C9: standings() gives one ranking per generated round, each with one entry
\* per registered player; the score of a player in ranking r is the sum of the
\* round points of the rounds 0..=r, and in the last ranking it is the
\* tournament score the pairing builder uses.
StandingsScores ==
    \A t \in {Built} : \A all \in {AllStandings(t)} :
        /\ \A st \in all : Len(st) = current_round
        /\ \A r \in 0..(current_round - 1) :
              LET points == EagerFcn([id \in PlayerIds(t) |->
                                CumulativePoints(t.players[id], r)], PlayerIds(t))
                  builder == EagerFcn([id \in PlayerIds(t) |->
                                tournament_score(t.players[id])], PlayerIds(t))
              IN  \A st \in all :
                      /\ Len(st[r + 1]) = Len(registrations)
                      /\ {st[r + 1][i].player_id : i \in DOMAIN st[r + 1]}
                            = DOMAIN registrations
                      /\ \A i \in DOMAIN st[r + 1] :
                            /\ st[r + 1][i].score = points[st[r + 1][i].player_id]
                            /\ r = current_round - 1 =>
                                  st[r + 1][i].score = builder[st[r + 1][i].player_id]

\* Three rounds are generated and the last ranking holds a player with a bye,
\* a player with a scored absence and a player with a win.
StandingsScoresWitness ==
    LET t == Built
    IN  /\ current_round = 3
        /\ \E id \in PlayerIds(t), k \in 1..3 : t.players[id].history[k].kind = "Bye"
        /\ \E id \in PlayerIds(t), k \in 1..3 :
              t.players[id].history[k].kind = "NotPaired" /\ t.players[id].history[k].score > 0
        /\ \E id \in PlayerIds(t), k \in 1..3 :
              /\ t.players[id].history[k].kind = "Game"
              /\ RoundPoints(t.players[id].history[k]) = 2

\* C10: for every player and round r, the progressive value of ranking r is
\* the sum over k in 0..=r of the player's score after round k.
ProgressiveRunningSum ==
    \A t \in {Built} : \A all \in {AllStandings(t)} :
        \A r \in 0..(current_round - 1) :
            LET running == EagerFcn([id \in PlayerIds(t) |->
                               SumOver(0..r, [k \in 0..r |->
                                   CumulativePoints(t.players[id], k)])], PlayerIds(t))
            IN  \A st \in all : \A i \in DOMAIN st[r + 1] :
                    st[r + 1][i].progressive = running[st[r + 1][i].player_id]

\* The sort key of an entry as the standings are described.
SortKey(e) == <<e.score, e.median_buchholz, e.cut_one_buchholz, e.buchholz, e.progressive>>

\* x >= y in the lexicographic order of tuples of the same length.
RECURSIVE LexGeq(_, _)
LexGeq(x, y) ==
    IF x = <<>> THEN TRUE
    ELSE Head(x) > Head(y) \/ (Head(x) = Head(y) /\ LexGeq(Tail(x), Tail(y)))

\* C11: in every ranking, of two adjacent entries a before b the tuple
\* (score, median_buchholz, cut_one_buchholz, buchholz, progressive) of a is
\* lexicographically greater than or equal to the one of b.
RankingOrdered ==
    \A t \in {Built} : \A all \in {AllStandings(t)} :
        \A st \in all : \A r \in DOMAIN st : \A i \in 1..(Len(st[r]) - 1) :
            LexGeq(SortKey(st[r][i]), SortKey(st[r][i + 1]))

\* The rankings hold two adjacent players with the same score whose order the
\* median decides against cut one, and two with the same score and median
\* whose order cut one decides.
RankingOrderedWitness ==
    \E st \in {standings(Built, [i \in 1..Len(registrations) |-> i])} :
        /\ \E r \in DOMAIN st : \E i \in 1..(Len(st[r]) - 1) :
              /\ st[r][i].score = st[r][i + 1].score
              /\ st[r][i].median_buchholz > st[r][i + 1].median_buchholz
              /\ st[r][i].cut_one_buchholz < st[r][i + 1].cut_one_buchholz
        /\ \E r \in DOMAIN st : \E i \in 1..(Len(st[r]) - 1) :
              /\ st[r][i].score = st[r][i + 1].score
              /\ st[r][i].median_buchholz = st[r][i + 1].median_buchholz
              /\ st[r][i].cut_one_buchholz > st[r][i + 1].cut_one_buchholz

\* C12: the standings of a Tournament model are the same whatever the
\* iteration order of its player map: same entries in the same order.
StandingsDeterministic ==
    \A t \in {Built} : \A all \in {AllStandings(t)} :
        \A st1, st2 \in all : st1 = st2

(***************************************************************************)
(* generate_first_round_pairings as a function of the roster (SpecFirst):  *)
(* the rosters of up to MaxRoster registrations before the first round,    *)
(* and the builder applied to each; req[1] holds what it returned.         *)
(***************************************************************************)
RECURSIVE Rosters(_)
Rosters(n) ==
    IF n = 0 THEN {<<>>}
    ELSE Rosters(n - 1)
           \cup {Append(r, [rating |-> reg.rating, title |-> reg.title,
                            status |-> reg.status, floats |-> 0])
                   : r \in {x \in Rosters(n - 1) : Len(x) = n - 1}, reg \in RegistrationInputs}

InitFirst ==
    /\ registrations \in Rosters(MaxRoster)
    /\ pairings = <<>>
    /\ pairing_gaps = <<>>
    /\ current_round = 0
    /\ num_rounds = NumRounds
    /\ end_date = NULL
    /\ req = [i \in Requests |-> Idle]
    /\ status_updates = 0

\* tournament.generate_first_round_pairings(first_color, inactive_scores)
FirstRound ==
    /\ req[1].pc = "idle"
    /\ \E t \in {FromDbData(read_tournament)} :
       \E c \in BuilderChoices(t), first_color \in {"White", "Black"} :
       \E out \in {generate_first_round_pairings(t, c.tpn, c.prep, << >>, first_color)} :
           req' = [req EXCEPT ![1] = [pc |-> IF out.err = "Ok" THEN "returned" ELSE out.err,
                                     np |-> out.np]]
    /\ UNCHANGED <<registrations, pairings, pairing_gaps, current_round, num_rounds,
                   end_date, status_updates>>

NextFirst == FirstRound

SpecFirst == InitFirst /\ [][NextFirst]_vars

\* C7: on a tournament without rounds and with n Active players,
\* generate_first_round_pairings returns floor(n / 2) pairings: every Active
\* player but the one of the bye is in exactly one of them, nobody else is.
FirstRoundBoards ==
    req[1].pc # "idle" =>
        LET t == Built
            np == req[1].np
            bye == {np.gaps[i].player_id : i \in {j \in DOMAIN np.gaps : np.gaps[j].is_bye}}
        IN  /\ req[1].pc = "returned"
            /\ Len(np.pairings) = Cardinality(ActiveIds(t)) \div 2
            /\ \A id \in PlayerIds(t) :
                  Cardinality({b \in DOMAIN np.pairings :
                                 id \in {np.pairings[b].white_id, np.pairings[b].black_id}})
                    = (IF id \in ActiveIds(t) \ bye THEN 1 ELSE 0)

\* The builder has returned the first round of a roster of five with an odd
\* number of Active players and an Inactive one.
FirstRoundBoardsWitness ==
    /\ req[1].pc = "returned"
    /\ Len(req[1].np.pairings) >= 1
    /\ Cardinality(ActiveIds(Built)) % 2 = 1
    /\ Cardinality(ActiveIds(Built)) < Len(registrations)

(***************************************************************************)
(* Two pair requests in flight (SpecConc).  The handler reads the model,   *)
(* computes the NewPairings and then runs the commit transaction; between  *)
(* the read and the commit the other requests are served.                  *)
(***************************************************************************)
\* read_tournament and generate_next_pairings of request i.  A request that
\* fails returns its error and leaves nothing behind.
PairCompute(i) ==
    /\ req[i].pc = "idle"
    /\ \E t \in {FromDbData(read_tournament)} :
       \E choices \in {IF BuilderReached(t) THEN BuilderChoices(t) ELSE {}} :
       \E out \in generate_next_pairings(t, choices, NULL, << >>) :
           req' = [req EXCEPT ![i] = IF out.err = "Ok"
                                     THEN [pc |-> "computed", np |-> out.np]
                                     ELSE Idle]
    /\ UNCHANGED <<registrations, pairings, pairing_gaps, current_round, num_rounds,
                   end_date, status_updates>>

\* new_pairings.commit(pool) of request i.
PairCommit(i) ==
    /\ req[i].pc = "computed"
    /\ IF ~CommitPanics(req[i].np)
       THEN commit(req[i].np)
       ELSE UNCHANGED <<registrations, pairings, pairing_gaps, current_round>>
    /\ req' = [req EXCEPT ![i] = Idle]
    /\ UNCHANGED <<num_rounds, end_date, status_updates>>

\* POST /{id}/result with the results that finish a round.
UpdateResultConc ==
    /\ \E t \in {FromDbData(read_tournament)} :
       \E round_id \in 0..(NumRounds - 1), board_id \in 0..(MaxPlayers \div 2),
          word \in {"1-0", "1/2-1/2"} :
           IF update_result_check(t, round_id, board_id, word) = "Ok"
           THEN update_game_result(round_id, board_id, GameResultFromStr(word))
           ELSE UNCHANGED pairings
    /\ UNCHANGED <<registrations, pairing_gaps, current_round, num_rounds, end_date, req,
                   status_updates>>

InitConc ==
    /\ registrations \in {r \in Rosters(MaxPlayers) : Len(r) >= 2}
    /\ pairings = <<>>
    /\ pairing_gaps = <<>>
    /\ current_round = 0
    /\ num_rounds = NumRounds
    /\ end_date = NULL
    /\ req = [i \in Requests |-> Idle]
    /\ status_updates = 0

NextConc ==
    \/ \E i \in Requests : PairCompute(i)
    \/ \E i \in Requests : PairCommit(i)
    \/ UpdateResultConc

SpecConc == InitConc /\ [][NextConc]_vars

\* C3: under any interleaving of two pair requests, a commit that inserts
\* pairings with round_number r is applied only when the stored current_round
\* is r, and moves it to r + 1; no round holds the pairing rows of two commits.
CommitAtCurrentRound ==
    [][NewRows # {} =>
          /\ \A row \in NewRows : row.round_number = current_round
          /\ current_round' = current_round + 1
          /\ \A i \in DOMAIN pairings :
                pairings[i].round_number # current_round]_vars

(***************************************************************************)
(* Successive pair commits on a full roster (SpecColors): ColorPlayers     *)
(* Active players of different ratings, ColorRounds rounds, every game     *)
(* decided before the next round is paired.                                *)
(***************************************************************************)
InitColors ==
    /\ registrations = [i \in 1..ColorPlayers |->
                            [rating |-> 2400 - 100 * i, title |-> "", status |-> "active",
                             floats |-> 0]]
    /\ pairings = <<>>
    /\ pairing_gaps = <<>>
    /\ current_round = 0
    /\ num_rounds = ColorRounds
    /\ end_date = NULL
    /\ req = [i \in Requests |-> Idle]
    /\ status_updates = 0

\* POST /{id}/pair without a first color and without inactive scores.
PairColors ==
    /\ \E t \in {FromDbData(read_tournament)} :
       \E choices \in {IF BuilderReached(t) THEN BuilderChoices(t) ELSE {}} :
       \E out \in generate_next_pairings(t, choices, NULL, << >>) :
           /\ out.err = "Ok" /\ ~CommitPanics(out.np)
           /\ commit(out.np)
    /\ UNCHANGED <<num_rounds, end_date, req, status_updates>>

\* POST /{id}/result for the lowest board of the last round still without a
\* result.
ResultColors ==
    /\ \E i \in DOMAIN pairings :
          /\ pairings[i].result = NULL
          /\ \A j \in DOMAIN pairings : pairings[j].result = NULL => i <= j
          /\ \E t \in {FromDbData(read_tournament)}, word \in {"1-0", "0-1"} :
                /\ update_result_check(t, pairings[i].round_number,
                                       pairings[i].board_number, word) = "Ok"
                /\ update_game_result(pairings[i].round_number, pairings[i].board_number,
                                      GameResultFromStr(word))
    /\ UNCHANGED <<registrations, pairing_gaps, current_round, num_rounds, end_date, req,
                   status_updates>>

NextColors == PairColors \/ ResultColors

SpecColors == InitColors /\ [][NextColors]_vars

\* C2: in every state reached by successive pair commits no player has three
\* consecutive rounds that are Games played with the same color.
NoThreeSameColor ==
    LET t == Built
    IN  \A id \in PlayerIds(t) :
            LET h == t.players[id].history
            IN  \A r \in 1..(Len(h) - 2) :
                    ~ /\ h[r].kind = "Game" /\ h[r + 1].kind = "Game" /\ h[r + 2].kind = "Game"
                      /\ h[r].color = h[r + 1].color
                      /\ h[r + 1].color = h[r + 2].color

(***************************************************************************)
(* The requests served one at a time with their answers kept (SpecLog):    *)
(* req[1] holds the last request served, its input, the error it returned  *)
(* ("Ok" for none, "panic" for a handler that panicked) and whether it ran *)
(* mark_tournament_updated or wrote updated_at itself.                     *)
(***************************************************************************)
LogPlayers == 4
LogRounds == 2

Served(op, input, err, updated) ==
    [pc |-> "served", np |-> NoPairings, op |-> op, input |-> input, err |-> err,
     updated |-> updated]

LogPayloads == {<<>>, <<<<1, "lose">>>>}
LogResultInputs == {"1/2-1/2", "*"}

\* (variant: the results of the boards are not looked at)
end_tournament_permitted_any_result ==
    IF current_round < num_rounds THEN "CannotEndTournament" ELSE "Ok"

\* services::end_tournament once the permission check has passed: the error
\* it returns, or "Ok".
end_tournament_permitted ==
    IF current_round < num_rounds THEN "CannotEndTournament"
    ELSE IF \E i \in DOMAIN pairings :
               GameResultFromStr(IF pairings[i].result = NULL THEN "*"
                                 ELSE pairings[i].result) = "Ongoing"
    THEN "RoundNotDone"
    ELSE "Ok"

\* services::end_tournament: the error it returns, or "Ok".
end_tournament_check ==
    IF ~check_user_tournament_permissions THEN "InsufficientPermissions"
    ELSE end_tournament_permitted

\* tournament_repo::end_tournament
end_tournament == end_date' = "set"

InitLog ==
    /\ registrations \in Rosters(LogPlayers)
    /\ pairings = <<>>
    /\ pairing_gaps = <<>>
    /\ current_round = 0
    /\ num_rounds = LogRounds
    /\ end_date = NULL
    /\ req = [i \in Requests |-> Idle]
    /\ status_updates = 0

\* POST /{id}/pair
PairLogged ==
    /\ \E t \in {FromDbData(read_tournament)} :
       \E choices \in {IF BuilderReached(t) THEN BuilderChoices(t) ELSE {}} :
       \E payload \in LogPayloads :
       \E out \in generate_next_pairings(t, choices, NULL, payload) :
           IF out.err = "Ok" /\ ~CommitPanics(out.np)
           THEN /\ commit(out.np)
                /\ req' = [req EXCEPT ![1] = Served("pair", payload, "Ok", TRUE)]
           ELSE /\ UNCHANGED <<registrations, pairings, pairing_gaps, current_round>>
                /\ req' = [req EXCEPT ![1] =
                              Served("pair", payload,
                                     IF out.err = "Ok" THEN "panic" ELSE out.err, FALSE)]
    /\ UNCHANGED <<num_rounds, end_date, status_updates>>

\* POST /{id}/result
UpdateResultLogged ==
    /\ \E t \in {FromDbData(read_tournament)} :
       \E round_id \in 0..LogRounds, board_id \in 0..(LogPlayers \div 2),
          word \in LogResultInputs :
       \E err \in {update_result_check(t, round_id, board_id, word)} :
           /\ IF err = "Ok"
              THEN update_game_result(round_id, board_id, GameResultFromStr(word))
              ELSE UNCHANGED pairings
           /\ req' = [req EXCEPT ![1] =
                         Served("result",
                                [round_id |-> round_id, board_id |-> board_id, word |-> word],
                                err, err = "Ok")]
    /\ UNCHANGED <<registrations, pairing_gaps, current_round, num_rounds, end_date,
                   status_updates>>

\* POST /{id}/end
EndLogged ==
    /\ \E err \in {end_tournament_check} :
           /\ IF err = "Ok" THEN end_tournament ELSE UNCHANGED end_date
           /\ req' = [req EXCEPT ![1] = Served("end", <<>>, err, err = "Ok")]
    /\ UNCHANGED <<registrations, pairings, pairing_gaps, current_round, num_rounds,
                   status_updates>>

NextLog ==
    \/ PairLogged
    \/ UpdateResultLogged
    \/ EndLogged

SpecLog == InitLog /\ [][NextLog]_vars

\* The rows of the pairings table for one round and board.
BoardRows(round_id, board_id) ==
    {i \in DOMAIN pairings :
        pairings[i].round_number = round_id /\ pairings[i].board_number = board_id}

\* C13: update_result by an authorized caller returns the first of: Unknown
\* for a result that parses to Ongoing, TournamentNotStarted without pairings,
\* RoundNotFound for a round not generated, Unknown for a board not in the
\* round, InvalidRound for a round before current_round - 1; on every error
\* the pairings and updated_at are unchanged, and a result is only ever
\* written to the most recently generated round.
UpdateResultChecks ==
    [][req'[1].pc = "served" /\ req'[1].op = "result" /\ end_date = NULL =>
          LET in == req'[1].input
              expected ==
                  IF GameResultFromStr(in.word) = "Ongoing" THEN "Unknown"
                  ELSE IF pairings = <<>> THEN "TournamentNotStarted"
                  ELSE IF in.round_id >= current_round THEN "RoundNotFound"
                  ELSE IF BoardRows(in.round_id, in.board_id) = {} THEN "Unknown"
                  ELSE IF in.round_id < current_round - 1 THEN "InvalidRound"
                  ELSE "Ok"
          IN  /\ req'[1].err = expected
              /\ expected # "Ok" => pairings' = pairings /\ ~req'[1].updated
              /\ DOMAIN pairings' = DOMAIN pairings
              /\ \A i \in DOMAIN pairings :
                    pairings'[i] # pairings[i] =>
                        /\ pairings[i].round_number = current_round - 1
                        /\ i \in BoardRows(in.round_id, in.board_id)
              /\ UNCHANGED <<registrations, pairing_gaps, current_round, end_date>>]_vars

\* A result for a board of the first round was refused with InvalidRound
\* after the second round had been generated.
UpdateResultChecksWitness ==
    /\ req[1].pc = "served"
    /\ req[1].op = "result"
    /\ req[1].err = "InvalidRound"
    /\ current_round = 2
    /\ BoardRows(req[1].input.round_id, req[1].input.board_id) # {}

\* A board of the pairings table without a decided result.
OngoingBoard ==
    \E i \in DOMAIN pairings :
        pairings[i].result = NULL \/ GameResultFromStr(pairings[i].result) = "Ongoing"

\* C14: end_tournament by an authorized caller on a tournament that has not
\* ended and has a board with an Ongoing (or NULL) result fails with
\* RoundNotDone and leaves end_date unset.
EndWithOngoing ==
    [][req'[1].pc = "served" /\ req'[1].op = "end" /\ end_date = NULL /\ OngoingBoard =>
          req'[1].err = "RoundNotDone" /\ end_date' = NULL]_vars

\* C14 as amended: such a request fails and leaves end_date unset; the error
\* is CannotEndTournament while current_round < num_rounds and RoundNotDone
\* once every round has been generated.
EndWithOngoingFails ==
    [][req'[1].pc = "served" /\ req'[1].op = "end" /\ end_date = NULL /\ OngoingBoard =>
          /\ req'[1].err = (IF current_round < num_rounds THEN "CannotEndTournament"
                            ELSE "RoundNotDone")
          /\ end_date' = NULL
          /\ ~req'[1].updated]_vars

\* End was refused with RoundNotDone: every round is generated, a board of
\* the last round has a result and another one has none.
EndWithOngoingFailsWitness ==
    /\ req[1].pc = "served"
    /\ req[1].op = "end"
    /\ req[1].err = "RoundNotDone"
    /\ end_date = NULL
    /\ current_round = num_rounds
    /\ \E i, j \in DOMAIN pairings :
          /\ pairings[i].round_number = current_round - 1 /\ pairings[i].result = NULL
          /\ pairings[j].round_number = current_round - 1 /\ pairings[j].result # NULL

(***************************************************************************)
(* Requests in flight around the end of the tournament (SpecEnd).  Every   *)
(* handler awaits check_user_tournament_permissions first and does the     *)
(* rest of its work afterwards; between the two the other requests are     *)
(* served.  A refused request returns InsufficientPermissions and leaves   *)
(* nothing behind.                                                         *)
(***************************************************************************)
EndPlayers == 3
EndRounds == 2

Ops == {"register", "pair", "result", "status", "end"}

Permitted(op) == [pc |-> "permitted", np |-> NoPairings, op |-> op]

InitEnd ==
    /\ registrations \in {r \in Rosters(EndPlayers) : Len(r) = 2}
    /\ pairings = <<>>
    /\ pairing_gaps = <<>>
    /\ current_round = 0
    /\ num_rounds = EndRounds
    /\ end_date = NULL
    /\ req = [i \in Requests |-> Idle]
    /\ status_updates = 0

\* The permission check of request i, passed.
Admit(i) ==
    /\ req[i].pc = "idle"
    /\ check_user_tournament_permissions
    /\ \E op \in Ops : req' = [req EXCEPT ![i] = Permitted(op)]
    /\ UNCHANGED <<registrations, pairings, pairing_gaps, current_round, num_rounds,
                   end_date, status_updates>>

\* register_player after the check.
RegisterAct(i) ==
    /\ req[i].pc = "permitted" /\ req[i].op = "register"
    /\ IF Len(registrations) < EndPlayers
       THEN \E reg \in RegistrationInputs :
               create_tournament_registration(reg.rating, reg.title, reg.status, <<"draw">>)
       ELSE UNCHANGED <<registrations, pairing_gaps>>
    /\ req' = [req EXCEPT ![i] = Idle]
    /\ UNCHANGED <<pairings, current_round, num_rounds, end_date, status_updates>>

\* update_player_status after the check.
StatusAct(i) ==
    /\ req[i].pc = "permitted" /\ req[i].op = "status"
    /\ \E id \in 1..EndPlayers, word \in StatusUpdateInputs :
          IF status_updates < MaxStatusUpdates /\ PlayerStatusTryFrom(word) # "Err"
          THEN /\ update_registration_status(id, PlayerStatusTryFrom(word))
               /\ status_updates' = status_updates + 1
          ELSE UNCHANGED <<registrations, status_updates>>
    /\ req' = [req EXCEPT ![i] = Idle]
    /\ UNCHANGED <<pairings, pairing_gaps, current_round, num_rounds, end_date>>

\* generate_next_pairings after the check, and the commit.
PairAct(i) ==
    /\ req[i].pc = "permitted" /\ req[i].op = "pair"
    /\ \E t \in {FromDbData(read_tournament)} :
       \E choices \in {IF BuilderReachedPermitted(t) THEN BuilderChoices(t) ELSE {}} :
       \E out \in generate_next_pairings_permitted(t, choices, NULL, << >>) :
           IF out.err = "Ok" /\ ~CommitPanics(out.np)
           THEN commit(out.np)
           ELSE UNCHANGED <<registrations, pairings, pairing_gaps, current_round>>
    /\ req' = [req EXCEPT ![i] = Idle]
    /\ UNCHANGED <<num_rounds, end_date, status_updates>>

\* update_result after the check.
ResultAct(i) ==
    /\ req[i].pc = "permitted" /\ req[i].op = "result"
    /\ \E t \in {FromDbData(read_tournament)} :
       \E round_id \in 0..(EndRounds - 1), board_id \in 0..(EndPlayers \div 2 - 1),
          word \in {"1-0", "1/2-1/2"} :
           IF update_result_permitted(t, round_id, board_id, word) = "Ok"
           THEN update_game_result(round_id, board_id, GameResultFromStr(word))
           ELSE UNCHANGED pairings
    /\ req' = [req EXCEPT ![i] = Idle]
    /\ UNCHANGED <<registrations, pairing_gaps, current_round, num_rounds, end_date,
                   status_updates>>

\* end_tournament after the check.
EndAct(i) ==
    /\ req[i].pc = "permitted" /\ req[i].op = "end"
    /\ IF end_tournament_permitted = "Ok" THEN end_tournament ELSE UNCHANGED end_date
    /\ req' = [req EXCEPT ![i] = Idle]
    /\ UNCHANGED <<registrations, pairings, pairing_gaps, current_round, num_rounds,
                   status_updates>>

NextEnd ==
    \/ \E i \in Requests : Admit(i)
    \/ \E i \in Requests : RegisterAct(i)
    \/ \E i \in Requests : StatusAct(i)
    \/ \E i \in Requests : PairAct(i)
    \/ \E i \in Requests : ResultAct(i)
    \/ \E i \in Requests : EndAct(i)

SpecEnd == InitEnd /\ [][NextEnd]_vars

\* C15: once end_date is set, no step of any request changes the
\* registrations (status, floats), the pairings and their results, the gaps,
\* current_round or end_date.
EndFreezes ==
    [][end_date # NULL =>
          UNCHANGED <<registrations, pairings, pairing_gaps, current_round, end_date>>]_vars

(***************************************************************************)
(* Requests of several callers on two tournaments (SpecAuth).  The tables  *)
(* of the model are the rows of tournament 1, created by user 1.  User 2   *)
(* has created tournament 2, which has not ended; user 3 is an admin.  A   *)
(* request names its tournament in the path.  The statements of a request  *)
(* on tournament 2 that are keyed by the tournament id touch no row of     *)
(* tournament 1.  req[1] holds the last request served.                    *)
(***************************************************************************)
AuthPlayers == 3
AuthRounds == 2

Callers ==
    {[sub |-> 1, role |-> "standard"], [sub |-> 2, role |-> "standard"],
     [sub |-> 3, role |-> "admin"]}

TournamentIds == {1, 2}

\* select created_by, end_date from tournaments where id = ?
TournamentOwnerAndEndDate(tournament_id) ==
    IF tournament_id = 1 THEN [created_by |-> 1, end_date |-> end_date]
    ELSE [created_by |-> 2, end_date |-> NULL]

\* check_user_tournament_permissions(pool, tournament_id, claims)
check_permissions_of(tournament_id, claims) ==
    LET t == TournamentOwnerAndEndDate(tournament_id)
    IN  IF t.end_date # NULL THEN FALSE
        ELSE IF t.created_by = claims.sub \/ claims.role = "admin" THEN TRUE
        ELSE FALSE

InitAuth ==
    /\ registrations \in {r \in Rosters(AuthPlayers) : Len(r) = 2}
    /\ pairings = <<>>
    /\ pairing_gaps = <<>>
    /\ current_round = 0
    /\ num_rounds = AuthRounds
    /\ end_date = NULL
    /\ req = [i \in Requests |-> Idle]
    /\ status_updates = 0

\* POST /{tournament_id}/register
RegisterAuth ==
    /\ Len(registrations) < AuthPlayers
    /\ \E claims \in Callers, tournament_id \in TournamentIds :
       \E permitted \in {check_permissions_of(tournament_id, claims)} :
          /\ IF permitted /\ tournament_id = 1
             THEN \E reg \in RegistrationInputs :
                     create_tournament_registration(reg.rating, reg.title, reg.status, <<>>)
             ELSE UNCHANGED <<registrations, pairing_gaps>>
          /\ req' = [req EXCEPT ![1] =
                        Served("register", [claims |-> claims, tournament_id |-> tournament_id],
                               IF permitted THEN "Ok" ELSE "InsufficientPermissions", FALSE)]
    /\ UNCHANGED <<pairings, current_round, num_rounds, end_date, status_updates>>

\* POST /{tournament_id}/player-status: the permission is checked for the
\* tournament of the path, the row is found by payload.id alone.
StatusAuth ==
    /\ status_updates < MaxStatusUpdates
    /\ \E claims \in Callers, tournament_id \in TournamentIds :
       \E id \in 1..AuthPlayers, word \in {"inactive", "active"} :
       \E permitted \in {check_permissions_of(tournament_id, claims)} :
          /\ IF permitted
             THEN /\ update_registration_status(id, PlayerStatusTryFrom(word))
                  /\ status_updates' = status_updates + 1
             ELSE UNCHANGED <<registrations, status_updates>>
          /\ req' = [req EXCEPT ![1] =
                        Served("status", [claims |-> claims, tournament_id |-> tournament_id],
                               IF permitted THEN "Ok" ELSE "InsufficientPermissions", FALSE)]
    /\ UNCHANGED <<pairings, pairing_gaps, current_round, num_rounds, end_date>>

\* POST /{tournament_id}/pair
PairAuth ==
    /\ \E claims \in Callers, tournament_id \in TournamentIds :
       \E permitted \in {check_permissions_of(tournament_id, claims)} :
          IF permitted /\ tournament_id = 1
          THEN \E t \in {FromDbData(read_tournament)} :
               \E choices \in {IF BuilderReachedPermitted(t) THEN BuilderChoices(t) ELSE {}} :
               \E out \in generate_next_pairings_permitted(t, choices, NULL, << >>) :
                  /\ IF out.err = "Ok" /\ ~CommitPanics(out.np)
                     THEN commit(out.np)
                     ELSE UNCHANGED <<registrations, pairings, pairing_gaps, current_round>>
                  /\ req' = [req EXCEPT ![1] =
                                Served("pair",
                                       [claims |-> claims, tournament_id |-> tournament_id],
                                       IF out.err = "Ok" /\ CommitPanics(out.np) THEN "panic"
                                       ELSE out.err,
                                       out.err = "Ok" /\ ~CommitPanics(out.np))]
          ELSE /\ UNCHANGED <<registrations, pairings, pairing_gaps, current_round>>
               /\ req' = [req EXCEPT ![1] =
                             Served("pair", [claims |-> claims, tournament_id |-> tournament_id],
                                    IF permitted THEN "Ok" ELSE "InsufficientPermissions",
                                    FALSE)]
    /\ UNCHANGED <<num_rounds, end_date, status_updates>>

\* POST /{tournament_id}/result
ResultAuth ==
    /\ \E claims \in Callers, tournament_id \in TournamentIds :
       \E permitted \in {check_permissions_of(tournament_id, claims)} :
          IF permitted /\ tournament_id = 1
          THEN \E t \in {FromDbData(read_tournament)} :
               \E round_id \in 0..(AuthRounds - 1), word \in {"1-0", "0-1"} :
               \E err \in {update_result_permitted(t, round_id, 0, word)} :
                  /\ IF err = "Ok"
                     THEN update_game_result(round_id, 0, GameResultFromStr(word))
                     ELSE UNCHANGED pairings
                  /\ req' = [req EXCEPT ![1] =
                                Served("result",
                                       [claims |-> claims, tournament_id |-> tournament_id],
                                       err, err = "Ok")]
          ELSE /\ UNCHANGED pairings
               /\ req' = [req EXCEPT ![1] =
                             Served("result",
                                    [claims |-> claims, tournament_id |-> tournament_id],
                                    IF permitted THEN "Ok" ELSE "InsufficientPermissions",
                                    FALSE)]
    /\ UNCHANGED <<registrations, pairing_gaps, current_round, num_rounds, end_date,
                   status_updates>>

\* POST /{tournament_id}/end
EndAuth ==
    /\ \E claims \in Callers, tournament_id \in TournamentIds :
       \E permitted \in {check_permissions_of(tournament_id, claims)} :
       \E err \in {IF ~permitted THEN "InsufficientPermissions"
                   ELSE IF tournament_id = 1 THEN end_tournament_permitted
                   ELSE "CannotEndTournament"} :
          /\ IF err = "Ok" THEN end_tournament ELSE UNCHANGED end_date
          /\ req' = [req EXCEPT ![1] =
                        Served("end", [claims |-> claims, tournament_id |-> tournament_id],
                               err, err = "Ok")]
    /\ UNCHANGED <<registrations, pairings, pairing_gaps, current_round, num_rounds,
                   status_updates>>

NextAuth ==
    \/ RegisterAuth
    \/ StatusAuth
    \/ PairAuth
    \/ ResultAuth
    \/ EndAuth

SpecAuth == InitAuth /\ [][NextAuth]_vars

\* C16: a step changes the rows of tournament 1 (registrations and their
\* status, pairings, results, gaps, current_round, end_date) only when the
\* caller of the request is the creator of tournament 1 or an admin, and
\* tournament 1 has not ended.
WritesAuthorized ==
    [][<<registrations, pairings, pairing_gaps, current_round, end_date>>'
          # <<registrations, pairings, pairing_gaps, current_round, end_date>> =>
          /\ end_date = NULL
          /\ req'[1].input.claims.sub = 1 \/ req'[1].input.claims.role = "admin"]_vars

(***************************************************************************)
(* Pair requests of the logged requests (SpecLog).                         *)
(***************************************************************************)
\* The Active players of the registrations table.
ActiveRegistrations == {i \in DOMAIN registrations : registrations[i].status = "active"}

\* A board of the last generated round without a decided result.
LastRoundOngoing ==
    \E i \in DOMAIN pairings :
        /\ pairings[i].round_number = current_round - 1
        /\ pairings[i].result = NULL \/ GameResultFromStr(pairings[i].result) = "Ongoing"

\* C17: a pair request by an authorized caller on a tournament with at least
\* two registered players whose current_round equals num_rounds fails with
\* TournamentEnded and commits nothing, whatever the results of the last
\* round are.
PairAfterLastRound ==
    [][/\ req'[1].pc = "served" /\ req'[1].op = "pair"
       /\ end_date = NULL
       /\ Len(registrations) >= 2
       /\ current_round = num_rounds
       =>
       /\ req'[1].err = "TournamentEnded"
       /\ ~req'[1].updated
       /\ UNCHANGED <<registrations, pairings, pairing_gaps, current_round, end_date>>]_vars

\* C17 as amended: such a request fails and commits nothing; the error is
\* DuplicatePlayerResult for a malformed inactive-scores payload, else
\* RoundNotDone while a board of the last round is Ongoing, else
\* TournamentEnded.
PairAfterLastRoundFails ==
    [][/\ req'[1].pc = "served" /\ req'[1].op = "pair"
       /\ end_date = NULL
       /\ Len(registrations) >= 2
       /\ current_round = num_rounds
       =>
       /\ req'[1].err =
             (IF InactiveScoresFrom(req'[1].input, << >>).err # "Ok"
              THEN "DuplicatePlayerResult"
              ELSE IF LastRoundOngoing THEN "RoundNotDone"
              ELSE "TournamentEnded")
       /\ ~req'[1].updated
       /\ UNCHANGED <<registrations, pairings, pairing_gaps, current_round, end_date>>]_vars

\* A pair request was refused with TournamentEnded: every round is generated
\* and every board of the last round is decided.
PairAfterLastRoundFailsWitness ==
    /\ req[1].pc = "served"
    /\ req[1].op = "pair"
    /\ req[1].err = "TournamentEnded"
    /\ end_date = NULL
    /\ Len(registrations) >= 2
    /\ current_round = num_rounds
    /\ ~LastRoundOngoing

\* C18: a pair request for round 1 (current_round = 0) with a well-formed
\* payload on a tournament with no or exactly one Active player fails with
\* InsufficientPlayers, however many Inactive players are registered, and
\* commits nothing.
FirstRoundNeedsTwoActive ==
    [][/\ req'[1].pc = "served" /\ req'[1].op = "pair"
       /\ end_date = NULL
       /\ InactiveScoresFrom(req'[1].input, << >>).err = "Ok"
       /\ current_round = 0
       /\ Cardinality(ActiveRegistrations) <= 1
       =>
       /\ req'[1].err = "InsufficientPlayers"
       /\ ~req'[1].updated
       /\ UNCHANGED <<registrations, pairings, pairing_gaps, current_round, end_date>>]_vars

(***************************************************************************)
(* The first round of a roster of up to six, with the color given to the   *)
(* builder kept next to its result (SpecFirstColor).                       *)
(***************************************************************************)
FirstColorRoster == 6

InitFirstColor ==
    /\ registrations \in Rosters(FirstColorRoster)
    /\ pairings = <<>>
    /\ pairing_gaps = <<>>
    /\ current_round = 0
    /\ num_rounds = NumRounds
    /\ end_date = NULL
    /\ req = [i \in Requests |-> Idle]
    /\ status_updates = 0

\* tournament.generate_first_round_pairings(scores, color)
FirstRoundColored ==
    /\ req[1].pc = "idle"
    /\ \E t \in {FromDbData(read_tournament)} :
       \E c \in BuilderChoices(t), first_color \in {"White", "Black"} :
       \E out \in {generate_first_round_pairings(t, c.tpn, c.prep, << >>, first_color)} :
           req' = [req EXCEPT ![1] = [pc |-> IF out.err = "Ok" THEN "returned" ELSE out.err,
                                     np |-> out.np,
                                     first_color |-> first_color]]
    /\ UNCHANGED <<registrations, pairings, pairing_gaps, current_round, num_rounds,
                   end_date, status_updates>>

NextFirstColor == FirstRoundColored

SpecFirstColor == InitFirstColor /\ [][NextFirstColor]_vars

DerivedPairingRows(t) ==
    UNION {{[round_number |-> r - 1,
             board_number |-> b - 1,
             white_id |-> t.pairings[r][b][1],
             black_id |-> t.pairings[r][b][2],
             result |-> GameResultToString(t.results[r][b])]
               : b \in DOMAIN t.pairings[r]} : r \in DOMAIN t.pairings}

\* gaps[round] of the response, as rows: one for every NotPaired or Bye item
\* of every player's history.
DerivedGapRows(t) ==
    UNION {{[player_id |-> id,
             round_id |-> r - 1,
             score |-> IF t.players[id].history[r].kind = "Bye" THEN 2
                       ELSE t.players[id].history[r].score,
             is_bye |-> t.players[id].history[r].kind = "Bye"]
               : r \in {x \in DOMAIN t.players[id].history :
                            t.players[id].history[x].kind \in {"NotPaired", "Bye"}}}
              : id \in PlayerIds(t)}

\* The result column read as a GameResult, an unset result being Ongoing.
ResultRead(rows) ==
    {[row EXCEPT !.result = IF row.result = NULL THEN "Ongoing"
                            ELSE GameResultFromStr(row.result)] : row \in rows}

\* C20: in every state reached by registrations, pair commits and result
\* updates, the pairing rows and the gap rows derived from the assembled
\* model are the persisted pairing rows and gap rows, compared as sets (the
\* results compared as GameResult values).
RoundTrip ==
    /\ ResultRead(DerivedPairingRows(Built)) = ResultRead({pairings[i] : i \in DOMAIN pairings})
    /\ DerivedGapRows(Built) = {pairing_gaps[i] : i \in DOMAIN pairing_gaps}

(***************************************************************************)
(* A reader beside the writers (SpecRead).  read_tournament runs its four  *)
(* selects one after another on the pool, each in its own implicit         *)
(* transaction; a pair commit is one transaction and falls between two     *)
(* selects.  req[2] is the reader: its position and the rows read so far.  *)
(***************************************************************************)
ReadPlayers == 3
ReadRounds == 2

NoData ==
    [current_round |-> 0, num_rounds |-> 0, end_date |-> NULL,
     players |-> <<>>, pairings |-> <<>>, pairing_gaps |-> <<>>]

InitRead ==
    /\ registrations \in {r \in Rosters(ReadPlayers) : Len(r) >= 2}
    /\ pairings = <<>>
    /\ pairing_gaps = <<>>
    /\ current_round = 0
    /\ num_rounds = ReadRounds
    /\ end_date = NULL
    /\ req = [i \in Requests |-> Idle]
    /\ status_updates = 0

\* get_tournament(pool, id)
GetTournament ==
    /\ req[2].pc \in {"idle", "read"}
    /\ req' = [req EXCEPT ![2] =
                  [pc |-> "get_tournament", np |-> NoPairings,
                   data |-> [NoData EXCEPT !.current_round = current_round,
                                           !.num_rounds = num_rounds,
                                           !.end_date = end_date]]]
    /\ UNCHANGED <<registrations, pairings, pairing_gaps, current_round, num_rounds,
                   end_date, status_updates>>

\* select_registrations(pool, id)
SelectRegistrations ==
    /\ req[2].pc = "get_tournament"
    /\ req' = [req EXCEPT ![2].pc = "select_registrations",
                          ![2].data.players = registrations]
    /\ UNCHANGED <<registrations, pairings, pairing_gaps, current_round, num_rounds,
                   end_date, status_updates>>

\* select_pairings(pool, id)
SelectPairings ==
    /\ req[2].pc = "select_registrations"
    /\ req' = [req EXCEPT ![2].pc = "select_pairings",
                          ![2].data.pairings = pairings]
    /\ UNCHANGED <<registrations, pairings, pairing_gaps, current_round, num_rounds,
                   end_date, status_updates>>

\* select_pairing_gaps(pool, id): the TournamentDbData is complete.
SelectPairingGaps ==
    /\ req[2].pc = "select_pairings"
    /\ req' = [req EXCEPT ![2].pc = "read",
                          ![2].data.pairing_gaps = pairing_gaps]
    /\ UNCHANGED <<registrations, pairings, pairing_gaps, current_round, num_rounds,
                   end_date, status_updates>>

\* POST /{id}/pair of a writer, its commit one transaction.
PairBesideReader ==
    /\ \E t \in {FromDbData(read_tournament)} :
       \E choices \in {IF BuilderReached(t) THEN BuilderChoices(t) ELSE {}} :
       \E out \in generate_next_pairings(t, choices, NULL, << >>) :
           /\ out.err = "Ok" /\ ~CommitPanics(out.np)
           /\ commit(out.np)
    /\ UNCHANGED <<num_rounds, end_date, req, status_updates>>

\* POST /{id}/result of a writer.
ResultBesideReader ==
    /\ \E t \in {FromDbData(read_tournament)} :
       \E round_id \in 0..(ReadRounds - 1), board_id \in 0..(ReadPlayers \div 2),
          word \in {"1-0", "1/2-1/2"} :
           /\ update_result_check(t, round_id, board_id, word) = "Ok"
           /\ update_game_result(round_id, board_id, GameResultFromStr(word))
    /\ UNCHANGED <<registrations, pairing_gaps, current_round, num_rounds, end_date, req,
                   status_updates>>

NextRead ==
    \/ GetTournament
    \/ SelectRegistrations
    \/ SelectPairings
    \/ SelectPairingGaps
    \/ PairBesideReader
    \/ ResultBesideReader

SpecRead == InitRead /\ [][NextRead]_vars

\* C21: the rows read_tournament has put together while pair commits run
\* come from one state: every pairing row and every gap row read has a round
\* index strictly below the current_round read.
ReaderSnapshot ==
    req[2].pc = "read" =>
        /\ \A i \in DOMAIN req[2].data.pairings :
              req[2].data.pairings[i].round_number < req[2].data.current_round
        /\ \A i \in DOMAIN req[2].data.pairing_gaps :
              req[2].data.pairing_gaps[i].round_id < req[2].data.current_round

(***************************************************************************)
(* Properties of the matching prepare_pairings returns.                    *)
(***************************************************************************)
\* The total weight of a set of edges: the number of isize::MIN weights and
\* the sum of the other weights.
TotalWeight(M, W) ==
    [forbidden |-> SumOver(M, [e \in M |-> W[e].forbidden]),
     weight |-> SumOver(M, [e \in M |-> W[e].weight])]

\* The total a is strictly larger than the total b.
Heavier(a, b) ==
    \/ a.forbidden < b.forbidden
    \/ a.forbidden = b.forbidden /\ a.weight > b.weight

\* C22: whenever the builder can run, no matching of the feasibility graph
\* (Active, not the bye, never met), of any size, has a strictly larger total
\* edge weight than the matching prepare_pairings returns.
MatchingMaximizesWeight ==
    \A t \in {Built} :
        BuilderReachedPermitted(t) /\ Len(t.pairings) < t.num_rounds =>
            \A c \in BuilderChoices(t) :
                c.prep.err = "Ok" =>
                    \A E \in {Edges(t, c.prep.byes)} :
                    \A groups \in {group_players_by_score(t, c.tpn)} :
                    \A W \in {EagerFcn([e \in E |-> WeightOf(t, groups, e)], E)} :
                    \A returned \in {{{c.prep.pairings[i][1], c.prep.pairings[i][2]}
                                         : i \in DOMAIN c.prep.pairings}} :
                        \A N \in AllMatchings(E) :
                            ~Heavier(TotalWeight(N, W), TotalWeight(returned, W))

(***************************************************************************)
(* Rounds with players sitting out (SpecSit): SitPlayers players of        *)
(* different ratings, every game of a round drawn board after board, and   *)
(* up to SitStatusUpdates status changes sent between the rounds.          *)
(***************************************************************************)
SitPlayers == 5
SitRounds == 5
SitStatusUpdates == 4

InitSit ==
    /\ registrations = [i \in 1..SitPlayers |->
                            [rating |-> 2400 - 100 * i, title |-> "", status |-> "active",
                             floats |-> 0]]
    /\ pairings = <<>>
    /\ pairing_gaps = <<>>
    /\ current_round = 0
    /\ num_rounds = SitRounds
    /\ end_date = NULL
    /\ req = [i \in Requests |-> Idle]
    /\ status_updates = 0

\* POST /{id}/pair without inactive scores.
PairSit ==
    /\ \E t \in {FromDbData(read_tournament)} :
       \E choices \in {IF BuilderReached(t) THEN BuilderChoices(t) ELSE {}} :
       \E first_color \in FirstColorInputs :
       \E out \in generate_next_pairings(t, choices, first_color, << >>) :
           /\ out.err = "Ok" /\ ~CommitPanics(out.np)
           /\ commit(out.np)
    /\ UNCHANGED <<num_rounds, end_date, req, status_updates>>

\* POST /{id}/result with a draw for the first undecided board of the round.
ResultSit ==
    /\ \E t \in {FromDbData(read_tournament)} :
       \E round_id \in 0..(SitRounds - 1), board_id \in 0..(SitPlayers \div 2) :
           /\ update_result_check(t, round_id, board_id, "1/2-1/2") = "Ok"
           /\ board_id = Cardinality({i \in DOMAIN pairings :
                                        /\ pairings[i].round_number = round_id
                                        /\ pairings[i].result # NULL})
           /\ update_game_result(round_id, board_id, GameResultFromStr("1/2-1/2"))
    /\ UNCHANGED <<registrations, pairing_gaps, current_round, num_rounds, end_date, req,
                   status_updates>>

\* POST /{id}/player-status between two rounds, with the other status.
StatusSit ==
    /\ status_updates < SitStatusUpdates
    /\ check_user_tournament_permissions
    /\ \A i \in DOMAIN pairings : pairings[i].result # NULL
    /\ \E id \in 1..SitPlayers :
       \E word \in {IF registrations[id].status = "active" THEN "inactive" ELSE "active"} :
          /\ update_registration_status(id, PlayerStatusTryFrom(word))
          /\ status_updates' = status_updates + 1
    /\ UNCHANGED <<pairings, pairing_gaps, current_round, num_rounds, end_date, req>>

NextSit ==
    \/ PairSit
    \/ ResultSit
    \/ StatusSit

SpecSit == InitSit /\ [][NextSit]_vars

(***************************************************************************)
(* edge_weight applied to two players (SpecWeight).  The two players have  *)
(* histories of the same length; ranks and sizes are those of score groups *)
(* the two can be in: the same group when the scores are equal.  req[1]    *)
(* holds the arguments and, once the function was applied, its results for *)
(* both orders of the players.                                             *)
(***************************************************************************)
WeightRounds == 3
WeightGroup == 3

WeightItems == {Game(9, "White", "WhiteWins"), Game(9, "Black", "WhiteWins"),
                Game(9, "Black", "Draw")}

RECURSIVE WeightHistories(_)
WeightHistories(n) ==
    IF n = 0 THEN {<<>>}
    ELSE {Append(h, item) : h \in WeightHistories(n - 1), item \in WeightItems}

WeightPlayer(id, history, floats) ==
    [id |-> id, rating |-> 2000, title |-> 0, history |-> history, floats |-> floats,
     status |-> "Active"]

\* The ranks and sizes of the score groups of two players: a group of one or
\* of WeightGroup players, the player at its top or at its bottom.
WeightGroups ==
    {x \in [ranks : (0..(WeightGroup - 1)) \X (0..(WeightGroup - 1)),
            len : {1, WeightGroup} \X {1, WeightGroup}] :
        /\ x.ranks[1] \in {0, x.len[1] - 1}
        /\ x.ranks[2] \in {0, x.len[2] - 1}}

InitWeight ==
    /\ registrations = <<>>
    /\ pairings = <<>>
    /\ pairing_gaps = <<>>
    /\ current_round = 0
    /\ num_rounds = NumRounds
    /\ end_date = NULL
    /\ status_updates = 0
    /\ \E n \in 0..WeightRounds :
       \E hs \in {WeightHistories(n)} :
       \E h1 \in hs, h2 \in hs :
       \E s1 \in {SumSeq([i \in DOMAIN h1 |-> ItemScore(h1[i])])},
          s2 \in {SumSeq([i \in DOMAIN h2 |-> ItemScore(h2[i])])} :
       \E f \in {<<0, 0>>, <<1, 2>>}, g \in WeightGroups, m \in {0, 1} :
          /\ m <= Min2(s1, s2)
          /\ s1 = s2 => g.len[1] = g.len[2] /\ g.ranks[1] # g.ranks[2]
          /\ req = [i \in Requests |->
                      IF i = 1
                      THEN [pc |-> "idle", np |-> NoPairings,
                            args |-> [p1 |-> WeightPlayer(1, h1, f[1]),
                                      p2 |-> WeightPlayer(2, h2, f[2]),
                                      group_ranks |-> g.ranks, group_len |-> g.len,
                                      min_score |-> m],
                            weight |-> [forbidden |-> 0, weight |-> 0],
                            swapped |-> [forbidden |-> 0, weight |-> 0]]
                      ELSE Idle]

\* edge_weight(p1, p2, ranks, sizes, min_score) and the same for (p2, p1).
ApplyEdgeWeight ==
    /\ req[1].pc = "idle"
    /\ \E a \in {req[1].args} :
          req' = [req EXCEPT
                    ![1].pc = "weighed",
                    ![1].weight = edge_weight(a.p1, a.p2, a.group_ranks, a.group_len,
                                              a.min_score),
                    ![1].swapped = edge_weight(a.p2, a.p1,
                                               <<a.group_ranks[2], a.group_ranks[1]>>,
                                               <<a.group_len[2], a.group_len[1]>>,
                                               a.min_score)]
    /\ UNCHANGED <<registrations, pairings, pairing_gaps, current_round, num_rounds,
                   end_date, status_updates>>

NextWeight == ApplyEdgeWeight

SpecWeight == InitWeight /\ [][NextWeight]_vars

\* The weight as the objective is stated, for scores s1, s2, last colors
\* c1, c2 ("-" for none), ranks, sizes, float counters and min_score.
StatedWeight(s1, s2, c1, c2, rank1, rank2, size1, size2, floats1, floats2, min_score) ==
    LET delta == IF s1 > s2 THEN s1 - s2 ELSE s2 - s1
        penalty == IF delta >= 5 THEN 2250 + 200 * delta
                   ELSE <<0, 80, 570, 1350, 2250>>[delta + 1]
        rank_dist == IF rank1 > rank2 THEN rank1 - rank2 ELSE rank2 - rank1
        half == size1 \div 2
        size_high == IF s1 > s2 THEN size1 ELSE size2
        rank_high == IF s1 > s2 THEN rank1 ELSE rank2
    IN  5000 - penalty + 5 * (s1 + s2)
          - (IF c1 # "-" /\ c2 # "-" /\ c1 = c2 THEN 10 ELSE 0)
          - (IF s1 = s2
             THEN 5 * (IF rank_dist > half THEN rank_dist - half ELSE half - rank_dist)
             ELSE 0)
          - 20 * (floats1 + floats2)
          + (IF s1 # min_score /\ s2 # min_score
             THEN 200 \div (IF size1 > size2 THEN size1 ELSE size2) ELSE 0)
          - (IF s1 # s2 THEN 10 * (size_high - 1 - rank_high) ELSE 0)

LastColor(p) ==
    IF color_history(p) = <<>> THEN "-" ELSE color_history(p)[Len(color_history(p))]

\* C23: for two players not hit by the hard rejection, edge_weight is the
\* stated sum of the base weight, the penalties and the bonuses, and it is
\* the same when the two players are swapped.
EdgeWeightStated ==
    req[1].pc = "weighed" /\ req[1].weight.forbidden = 0 =>
        \A a \in {req[1].args} :
            /\ req[1].weight.weight =
                  StatedWeight(tournament_score(a.p1), tournament_score(a.p2),
                               LastColor(a.p1), LastColor(a.p2),
                               a.group_ranks[1], a.group_ranks[2],
                               a.group_len[1], a.group_len[2],
                               a.p1.floats, a.p2.floats, a.min_score)
            /\ req[1].swapped = req[1].weight

\* edge_weight was applied to two players five points apart who both played
\* Black last and have floated, the higher-scored one at the top of a group
\* of three.
EdgeWeightStatedWitness ==
    /\ req[1].pc = "weighed"
    /\ req[1].weight.forbidden = 0
    /\ tournament_score(req[1].args.p1) + 5 <= tournament_score(req[1].args.p2)
    /\ LastColor(req[1].args.p1) = "Black"
    /\ LastColor(req[1].args.p2) = "Black"
    /\ req[1].args.group_len[2] = 3
    /\ req[1].args.group_ranks[2] = 0
    /\ req[1].args.p1.floats + req[1].args.p2.floats = 3

(***************************************************************************)
(* Properties of the score groups.                                         *)
(***************************************************************************)
\* The Active players with tournament score sc, ordered by TPN ascending.
ActiveGroup(t, tpn, sc) ==
    LET members == {id \in ActiveIds(t) : tournament_score(t.players[id]) = sc}
    IN  SeqByRank(members,
                  [id \in members |-> Cardinality({q \in members : tpn[q] < tpn[id]})])

\* C24: whenever the builder can run, the score groups that give the ranks,
\* the sizes and min_score to the edge weight are the groups of the Active
\* players: one group for every score an Active player has, holding the
\* Active players of that score by TPN ascending.
GroupsOfActive ==
    \A t \in {Built} :
        BuilderReachedPermitted(t) /\ Len(t.pairings) < t.num_rounds =>
            \A tpn \in TpnChoices(t) :
            \A groups \in {group_players_by_score(t, tpn)} :
                /\ DOMAIN groups = {tournament_score(t.players[id]) : id \in ActiveIds(t)}
                /\ \A sc \in DOMAIN groups : groups[sc] = ActiveGroup(t, tpn, sc)

(***************************************************************************)
(* Properties of the colors in the rounds after the first.                 *)
(***************************************************************************)
\* Whites minus Blacks of a player's games.
Balance(p) ==
    Cardinality({i \in DOMAIN p.history :
                    p.history[i].kind = "Game" /\ p.history[i].color = "White"})
      - Cardinality({i \in DOMAIN p.history :
                        p.history[i].kind = "Game" /\ p.history[i].color = "Black"})

\* <<white, black>> is what the stated rule gives for the pair as the
\* matching returned it.
ColorsAsStated(t, tpn, pair, white, black) ==
    LET a == t.players[pair[1]]
        b == t.players[pair[2]]
        la == LastColor(a)
        lb == LastColor(b)
        Opposite(x, last) == IF last = "White" THEN black = x ELSE white = x
    IN  /\ {white, black} = {pair[1], pair[2]}
        /\ la = "-" /\ lb = "-" => <<white, black>> = pair
        /\ la # "-" /\ lb = "-" => Opposite(a.id, la)
        /\ la = "-" /\ lb # "-" => Opposite(b.id, lb)
        /\ la # "-" /\ lb # "-" /\ la # lb => Opposite(a.id, la) /\ Opposite(b.id, lb)
        /\ la # "-" /\ la = lb /\ Balance(a) > Balance(b) => black = a.id
        /\ la # "-" /\ la = lb /\ Balance(a) < Balance(b) => black = b.id
        /\ la # "-" /\ la = lb /\ Balance(a) = Balance(b) =>
              black = (IF tpn[a.id] < tpn[b.id] THEN a.id ELSE b.id)

\* C25: in a round after the first the builder gives every matched pair its
\* colors by the stated rule: order kept without previous colors, the
\* opposite of the last color for a player who has one when the other has
\* none or a different one, and on equal last colors Black for the higher
\* color balance, on equal balances for the lower TPN.
NextRoundColorsStated ==
    \A t \in {Built} :
        /\ Len(t.pairings) >= 1
        /\ Len(t.pairings) < t.num_rounds
        /\ BuilderReachedPermitted(t)
        => \A c \in BuilderChoices(t) :
           \A out \in {generate_next_round_pairings(t, c.tpn, c.prep, << >>)} :
               out.err = "Ok" =>
                   /\ Len(out.np.pairings) = Len(c.prep.pairings)
                   /\ \A i \in DOMAIN out.np.pairings :
                         ColorsAsStated(t, c.tpn, c.prep.pairings[i],
                                        out.np.pairings[i].white_id,
                                        out.np.pairings[i].black_id)

\* A committed round after the first holds a board of two players who had
\* no game before it (the order of the matching was kept), and the builder
\* of the next round has a pair of two players with the same last color and
\* different color balances.
NextRoundColorsStatedWitness ==
    /\ \E i \in DOMAIN pairings :
          /\ pairings[i].round_number >= 1
          /\ \A j \in DOMAIN pairings :
                pairings[j].round_number < pairings[i].round_number =>
                    {pairings[j].white_id, pairings[j].black_id}
                       \cap {pairings[i].white_id, pairings[i].black_id} = {}
    /\ \E t \in {Built} :
          /\ Len(t.pairings) >= 1
          /\ Len(t.pairings) < t.num_rounds
          /\ BuilderReachedPermitted(t)
          /\ \E c \in BuilderChoices(t) :
                /\ c.prep.err = "Ok"
                /\ \E i \in DOMAIN c.prep.pairings :
                      /\ LastColor(t.players[c.prep.pairings[i][1]]) # "-"
                      /\ LastColor(t.players[c.prep.pairings[i][1]])
                            = LastColor(t.players[c.prep.pairings[i][2]])
                      /\ Balance(t.players[c.prep.pairings[i][1]])
                            # Balance(t.players[c.prep.pairings[i][2]])

\* ---------------------------------------------------------------------
\* Four players who sit rounds out with a recorded score: a player who
\* comes back meets an opponent who had a bye, so neither has a color.
\* ---------------------------------------------------------------------
AbsentPlayers == 4
AbsentRounds == 4
AbsentStatusUpdates == 3

\* The inactive_scores of a pair request: none, a win for every player, and a
\* draw, a loss and a win for players 1, 2 and one who is not registered.
AbsentScoreInputs ==
    {<< >>,
     [i \in 1..AbsentPlayers |-> <<i, "win">>],
     <<<<1, "draw">>, <<2, "loss">>, <<AbsentPlayers + 1, "win">>>>}

InitAbsent ==
    /\ registrations = [i \in 1..AbsentPlayers |->
                            [rating |-> 2400 - 100 * i, title |-> "", status |-> "active",
                             floats |-> 0]]
    /\ pairings = <<>>
    /\ pairing_gaps = <<>>
    /\ current_round = 0
    /\ num_rounds = AbsentRounds
    /\ end_date = NULL
    /\ req = [i \in Requests |-> Idle]
    /\ status_updates = 0

PairAbsent ==
    /\ \E t \in {FromDbData(read_tournament)} :
       \E choices \in {IF BuilderReached(t) THEN BuilderChoices(t) ELSE {}} :
       \E payload \in AbsentScoreInputs :
       \E out \in generate_next_pairings(t, choices, NULL, payload) :
           /\ out.err = "Ok" /\ ~CommitPanics(out.np)
           /\ commit(out.np)
    /\ UNCHANGED <<num_rounds, end_date, req, status_updates>>

ResultAbsent ==
    /\ \E t \in {FromDbData(read_tournament)} :
       \E round_id \in 0..(AbsentRounds - 1), board_id \in 0..(AbsentPlayers \div 2) :
           /\ update_result_check(t, round_id, board_id, "1/2-1/2") = "Ok"
           /\ board_id = Cardinality({i \in DOMAIN pairings :
                                        /\ pairings[i].round_number = round_id
                                        /\ pairings[i].result # NULL})
           /\ update_game_result(round_id, board_id, GameResultFromStr("1/2-1/2"))
    /\ UNCHANGED <<registrations, pairing_gaps, current_round, num_rounds, end_date, req,
                   status_updates>>

StatusAbsent ==
    /\ status_updates < AbsentStatusUpdates
    /\ check_user_tournament_permissions
    /\ \A i \in DOMAIN pairings : pairings[i].result # NULL
    /\ \E id \in 1..AbsentPlayers :
       \E word \in {IF registrations[id].status = "active" THEN "inactive" ELSE "active"} :
          /\ update_registration_status(id, PlayerStatusTryFrom(word))
          /\ status_updates' = status_updates + 1
    /\ UNCHANGED <<pairings, pairing_gaps, current_round, num_rounds, end_date, req>>

NextAbsent ==
    \/ PairAbsent
    \/ ResultAbsent
    \/ StatusAbsent

SpecAbsent == InitAbsent /\ [][NextAbsent]_vars

\* The key of a board of the round built from t: the higher score of its two
\* players, the lower score, the smaller TPN.
BoardKey(t, tpn, row) ==
    LET sc == Scores(t)
    IN  [hi |-> Max2(sc[row.white_id], sc[row.black_id]),
         lo |-> Min2(sc[row.white_id], sc[row.black_id]),
         mt |-> Min2(tpn[row.white_id], tpn[row.black_id])]

\* Key a comes strictly before key b: higher score descending, lower score
\* descending, smaller TPN ascending.
KeyBefore(a, b) ==
    \/ a.hi > b.hi
    \/ a.hi = b.hi /\ a.lo > b.lo
    \/ a.hi = b.hi /\ a.lo = b.lo /\ a.mt < b.mt

\* C26: the boards of a generated round are numbered 0..n-1, each number once,
\* and for boards i < j the key (higher score descending, lower score
\* descending, smaller TPN ascending) of board j does not come before the key
\* of board i.
BoardsSortedByKey ==
    \A t \in {Built} :
        BuilderReachedPermitted(t) =>
            \A c \in BuilderChoices(t) :
            \A out \in generate_next_pairings_permitted(t, {c}, NULL, << >>) :
                out.err = "Ok" =>
                    LET rows == out.np.pairings
                    IN  /\ \A i \in DOMAIN rows : rows[i].board_number = i - 1
                        /\ \A i, j \in DOMAIN rows :
                              rows[i].board_number < rows[j].board_number =>
                                  ~KeyBefore(BoardKey(t, c.tpn, rows[j]),
                                             BoardKey(t, c.tpn, rows[i]))

\* A generated round has two boards with the same higher score and different
\* lower scores, the board with the smaller TPN being the later one.
BoardsSortedByKeyWitness ==
    \E t \in {Built} :
        /\ BuilderReachedPermitted(t)
        /\ \E c \in BuilderChoices(t) :
           \E out \in generate_next_pairings_permitted(t, {c}, NULL, << >>) :
              /\ out.err = "Ok"
              /\ \E i, j \in DOMAIN out.np.pairings :
                    /\ i < j
                    /\ BoardKey(t, c.tpn, out.np.pairings[i]).hi
                          = BoardKey(t, c.tpn, out.np.pairings[j]).hi
                    /\ BoardKey(t, c.tpn, out.np.pairings[i]).lo
                          > BoardKey(t, c.tpn, out.np.pairings[j]).lo
                    /\ BoardKey(t, c.tpn, out.np.pairings[i]).mt
                          > BoardKey(t, c.tpn, out.np.pairings[j]).mt

\* The score the request's inactive_scores give to a player: 2, 1 or 0 for
\* "win", "draw" or "loss", and 0 without an entry.
StatedGapScore(payload, id) ==
    IF \E i \in DOMAIN payload : payload[i][1] = id
    THEN LET word == payload[CHOOSE i \in DOMAIN payload : payload[i][1] = id][2]
         IN  CASE word = "win" -> 2
               [] word = "draw" -> 1
               [] OTHER -> 0
    ELSE 0

\* The gap rows of np are the stated ones for the round built from t with
\* the bye recipients bye and the inactive_scores payload.
GapRowsAsStated(t, bye, payload, np) ==
    LET RowsOf(id) == {i \in DOMAIN np.gaps : np.gaps[i].player_id = id}
        inactive == {id \in PlayerIds(t) : t.players[id].status = "Inactive"}
        bye_ids == {bye[i] : i \in DOMAIN bye}
    IN  /\ \A id \in bye_ids :
              /\ Cardinality(RowsOf(id)) = 1
              /\ \A i \in RowsOf(id) : np.gaps[i].score = 2 /\ np.gaps[i].is_bye
        /\ \A id \in inactive :
              /\ Cardinality(RowsOf(id)) = 1
              /\ \A i \in RowsOf(id) :
                    /\ ~np.gaps[i].is_bye
                    /\ np.gaps[i].score = StatedGapScore(payload, id)
        /\ \A i \in DOMAIN np.gaps : np.gaps[i].player_id \in bye_ids \cup inactive
        /\ \A i \in DOMAIN np.gaps : \A b \in DOMAIN np.pairings :
              np.gaps[i].player_id \notin {np.pairings[b].white_id, np.pairings[b].black_id}

\* C27: the gap rows of a generated round are one row of score 2 with is_bye
\* for the bye recipient, and one row without is_bye for every Inactive player
\* with the score 2, 1 or 0 of the player's entry of inactive_scores (0
\* without an entry); no other player has a row, and no player of a gap row
\* sits on a board of the round.
GapRowsStated ==
    \A t \in {Built} :
        BuilderReachedPermitted(t) =>
            \A c \in BuilderChoices(t), payload \in AbsentScoreInputs :
            \A out \in generate_next_pairings_permitted(t, {c}, NULL, payload) :
                out.err = "Ok" => GapRowsAsStated(t, c.prep.byes, payload, out.np)

\* A round is generated with a bye, with an Inactive player whose entry is a
\* draw, and with entries for an Active and for an unregistered player.
GapRowsStatedWitness ==
    \E t \in {Built} :
        /\ BuilderReachedPermitted(t)
        /\ \E c \in BuilderChoices(t), payload \in AbsentScoreInputs :
           \E out \in generate_next_pairings_permitted(t, {c}, NULL, payload) :
              /\ out.err = "Ok"
              /\ c.prep.byes # << >>
              /\ \E i \in DOMAIN out.np.gaps :
                    ~out.np.gaps[i].is_bye /\ out.np.gaps[i].score = 1
              /\ \E i \in DOMAIN payload :
                    /\ payload[i][1] \in PlayerIds(t)
                    /\ t.players[payload[i][1]].status = "Active"
              /\ \E i \in DOMAIN payload : payload[i][1] \notin PlayerIds(t)

\* C28: every Active player whom the matching of a generated round leaves
\* unmatched and who does not get the bye has a gap row of the round with
\* score 0 and without is_bye.
UnmatchedActiveInGaps ==
    \A t \in {Built} :
        BuilderReachedPermitted(t) =>
            \A c \in BuilderChoices(t) :
            \A out \in generate_next_pairings_permitted(t, {c}, NULL, << >>) :
                out.err = "Ok" =>
                    \A id \in PlayerIds(t) :
                        /\ t.players[id].status = "Active"
                        /\ \A b \in DOMAIN out.np.pairings :
                              id \notin {out.np.pairings[b].white_id,
                                         out.np.pairings[b].black_id}
                        /\ \A i \in DOMAIN c.prep.byes : c.prep.byes[i] # id
                        => \E i \in DOMAIN out.np.gaps :
                              /\ out.np.gaps[i].player_id = id
                              /\ out.np.gaps[i].score = 0
                              /\ ~out.np.gaps[i].is_bye

(***************************************************************************)
(* Two pair requests in flight, result updates and the end request         *)
(* (SpecFinish).                                                           *)
(***************************************************************************)
\* POST /{id}/end
EndConc ==
    /\ IF end_tournament_check = "Ok" THEN end_tournament ELSE UNCHANGED end_date
    /\ UNCHANGED <<registrations, pairings, pairing_gaps, current_round, num_rounds, req,
                   status_updates>>

NextFinish ==
    \/ \E i \in Requests : PairCompute(i)
    \/ \E i \in Requests : PairCommit(i)
    \/ UpdateResultConc
    \/ EndConc

SpecFinish == InitConc /\ [][NextFinish]_vars

\* C29: in every state in which end_date is set, current_round is num_rounds
\* and every board of every round has a result that is neither NULL nor
\* Ongoing, whatever the interleaving of the end, pair and result requests.
EndedComplete ==
    end_date # NULL =>
        /\ current_round = num_rounds
        /\ \A i \in DOMAIN pairings :
              /\ pairings[i].result # NULL
              /\ GameResultFromStr(pairings[i].result) # "Ongoing"

\* Round r is closed: the pairings of round r + 1 are committed.
ClosedRound(r) == \E i \in DOMAIN pairings : pairings[i].round_number = r + 1

\* C30: for requests served one at a time, once the pairings of round r + 1
\* are committed every board of round r has a result that is not Ongoing, and
\* no later step changes the result of a board of round r or of an earlier
\* round.
EarlierRoundsClosed ==
    /\ [](\A i \in DOMAIN pairings :
             ClosedRound(pairings[i].round_number) =>
                 /\ pairings[i].result # NULL
                 /\ GameResultFromStr(pairings[i].result) # "Ongoing")
    /\ [][\A i \in DOMAIN pairings :
             (\E r \in 0..NumRounds : ClosedRound(r) /\ pairings[i].round_number <= r) =>
                 /\ i \in DOMAIN pairings'
                 /\ pairings'[i].result = pairings[i].result]_vars

\* Round 2 is committed, so rounds 0 and 1 are closed, and update_result has
\* decided a board of round 2 with a result other than that of round 0.
EarlierRoundsClosedWitness ==
    /\ ClosedRound(1)
    /\ \E i, j \in DOMAIN pairings :
          /\ pairings[i].round_number = 0
          /\ pairings[j].round_number = 2
          /\ pairings[j].result # NULL
          /\ pairings[j].result # pairings[i].result

====
